---- MODULE Spec2Model ----
(***************************************************************************)
(* Model of the binary feature codec of indexer/feature.cpp:               *)
(*   FeatureBuilder1  (Stage-1 builder: accumulate, Serialize, Deserialize)*)
(*   BitSink/BitSource (bit packer and unpacker of the Stage-2 header)     *)
(*   FeatureBuilder2  (Stage-2 writer)                                     *)
(*   FeatureBase / FeatureType (lazy, stage-wise reader)                   *)
(*                                                                         *)
(* CHECK aborts the process in every build, ASSERT only in a debug build    *)
(* (and the #ifdef DEBUG blocks exist only there); the build is the        *)
(* variable debug, chosen at the start.  An abort is recorded in a         *)
(* "failed" variable of the component; no operation of that component is   *)
(* enabled afterwards.                                                     *)
(*                                                                         *)
(* Every component has its own specifications (SpecBits, SpecScale,        *)
(* SpecBuilder, SpecTypes, SpecWriter2, SpecStrips, SpecReader,            *)
(* SpecStages, SpecQueries, SpecGetters, SpecHeader2, SpecMalformed); the  *)
(* variables of the other components stay at their idle values.            *)
(***************************************************************************)
EXTENDS Integers, Sequences, FiniteSets, TLC

VARIABLES
  debug,         \* TRUE in a debug build (DEBUG defined, ASSERT active)
  \* ---- BitSink<TSink> (feature.cpp:349-379) and its byte sink
  bs_pos,        \* BitSink::m_pos
  bs_current,    \* BitSink::m_current
  bs_sink,       \* bytes written to m_sink so far
  bs_log,        \* history: the fields written, with the place each was put
  bs_finishes,   \* history: the number of Finish() calls so far
  \* ---- BitSource (feature.cpp:700-736) reading bs_sink
  br_ptr,        \* BitSource::m_ptr, as a 1-based index into bs_sink
  br_pos,        \* BitSource::m_pos
  br_out,        \* history: the values Read returned, in order
  br_failed,     \* an ASSERT of BitSource failed
  \* ---- GetScaleIndex(scale, offsets) as a pure function (feature.cpp:617-642)
  sc_header,     \* m_header: the scale breakpoints, GetScale(0..count-1)
  sc_offsets,    \* the offsets table, offsets[0..]
  sc_scale,      \* the requested scale
  sc_result,     \* the call's outcome: [called, aborted, value]
  \* ---- a FeatureBuilder1, its Serialize and a Deserialize of the bytes
  fb,            \* the builder (a record of its members)
  fb_phase,      \* "build", "serialized", "deserialized" or "failed"
  fb_failed,     \* the CHECK or ASSERT that aborted, or "none"
  fb_fields,     \* what Serialize wrote into data, field by field
  fb_copy,       \* the fresh builder that Deserialize filled from the bytes
  fb_lastLayer,  \* history: the argument of the last AddLayer call, 0 if none
  fb_holesIn,    \* history: the last SetAreaAddHoles call: [called, holes, ring]
  fb_diff,       \* history: the last AssignType_SetDifference call
  \* ---- a FeatureBuilder2 and the buffers_holder_t the simplifier fills
  w2_fb,         \* the builder (FeatureBuilder1 members)
  w2_data,       \* buffers_holder_t: m_innerPts, m_ptsMask, m_ptsOffset, ...
  w2_base,       \* the base point (m2::Uint64ToPointU(base))
  w2_ptsScale,   \* the scale index the simplifier handles next for points
  w2_trgScale,   \* the same for triangles
  w2_supplied,   \* history: the offset supplied per scale index: [pts, trg]
  w2_phase,      \* "simplify", "ready", "skipped", "serialized" or "failed"
  w2_fields,     \* what Serialize wrote into data.m_buffer, field by field
  w2_failed,     \* the ASSERT that aborted, or "none"
  \* ---- a FeatureType reading one encoded feature (read_source_t)
  rd,            \* the reader (FeatureBase and FeatureType members, failed)
  rd_src,        \* the read_source_t every Deserialize of the behaviour loads
  rd_clean,      \* history: no stage ran twice since the last Deserialize
  rd_kept,       \* history: m_Points after a parse of an inline line, per scale index
  rd_calls,      \* the number of calls since the last Deserialize
  rd_last        \* history (SpecStages): the last call: [op, scale, env, pre]

bitVars == <<bs_pos, bs_current, bs_sink, bs_log, bs_finishes,
             br_ptr, br_pos, br_out, br_failed>>

scaleVars == <<sc_header, sc_offsets, sc_scale, sc_result>>

builderVars == <<fb, fb_phase, fb_failed, fb_fields, fb_copy, fb_lastLayer, fb_holesIn,
                 fb_diff>>

writerVars == <<w2_fb, w2_data, w2_base, w2_ptsScale, w2_trgScale, w2_supplied,
               w2_phase, w2_fields, w2_failed>>

readerVars == <<rd, rd_src, rd_clean, rd_kept, rd_calls, rd_last>>

vars == <<debug, bitVars, scaleVars, builderVars, writerVars, readerVars>>

(***************************************************************************)
(* Fixed-width integer arithmetic                                          *)
(***************************************************************************)
RECURSIVE Pow2(_)
Pow2(n) == IF n <= 0 THEN 1 ELSE 2 * Pow2(n - 1)

U8(x) == x % 256

Shl(x, n) == x * Pow2(n)

Shr(x, n) == x \div Pow2(n)

RECURSIVE BitOr(_, _)
BitOr(a, b) ==
  IF a = 0 THEN b
  ELSE IF b = 0 THEN a
  ELSE (IF (a % 2 = 1) \/ (b % 2 = 1) THEN 1 ELSE 0) + 2 * BitOr(a \div 2, b \div 2)

RECURSIVE BitAnd(_, _)
BitAnd(a, b) ==
  IF a = 0 \/ b = 0 THEN 0
  ELSE (IF (a % 2 = 1) /\ (b % 2 = 1) THEN 1 ELSE 0) + 2 * BitAnd(a \div 2, b \div 2)

Min(a, b) == IF a < b THEN a ELSE b

Max(a, b) == IF a > b THEN a ELSE b

\* A local of the source: v is computed once and Body goes on with it.
Local(v, Body(_)) == Body(v)

(***************************************************************************)
(* BitSink and BitSource as functions of their state                       *)
(***************************************************************************)
\* BitSink::Finish as a function of (pos, current, sink): the state after it.
BitSinkFinish(pos, current, sink) ==
  IF pos > 0
    THEN [pos |-> 0, current |-> 0, sink |-> Append(sink, current)]
    ELSE [pos |-> pos, current |-> current, sink |-> sink]

\* The guard of BitSink::Write that flushes the current byte first.
WriteMustFlushOffByOne(pos, count) == pos + count >= 8

WriteMustFlush(pos, count) == pos + count > 8

\* BitSink::Write as a function of the state and (value, count).
BitSinkWrite(pos, current, sink, value, count) ==
  Local(IF WriteMustFlush(pos, count)
          THEN BitSinkFinish(pos, current, sink)
          ELSE [pos |-> pos, current |-> current, sink |-> sink],
        LAMBDA f :
          [pos     |-> U8(f.pos + count),
           current |-> U8(BitOr(f.current, Shl(value, f.pos))),
           sink    |-> f.sink,
           at      |-> [byte |-> Len(f.sink) + 1, bit |-> f.pos]])

\* BitSource::Read as a function of (bytes, ptr, pos, count): the value it
\* computes, the state it leaves, and whether ASSERT_EQUAL(m_pos, 8) holds.
BitSourceRead(bytes, ptr, pos, count) ==
  LET v   == BitAnd(Shr(bytes[ptr], pos), Pow2(count) - 1)
      np  == pos + count
  IN  [v   |-> v,
       ptr |-> IF np >= 8 THEN ptr + 1 ELSE ptr,
       pos |-> IF np >= 8 THEN 0 ELSE np,
       ok  |-> (np >= 8) => (np = 8)]

(***************************************************************************)
(* Numeric encodings (coding/varint.hpp; spec 6.3)                         *)
(***************************************************************************)
\* WriteVarUint: 7 bits per byte, least significant group first, the top bit
\* of a byte set when another byte follows.
RECURSIVE VarUintBytes(_)
VarUintBytes(n) ==
  IF n < 128 THEN <<n>>
  ELSE <<128 + (n % 128)>> \o VarUintBytes(n \div 128)

\* ReadVarUint at the 1-based position pos of bytes: the value, the position
\* after it, and ok = FALSE when the bytes end inside the number.
RECURSIVE ReadVarUintAt(_, _, _, _)
ReadVarUintAt(bytes, pos, shift, acc) ==
  IF pos > Len(bytes) THEN [ok |-> FALSE, value |-> acc, pos |-> pos]
  ELSE LET b == bytes[pos]
           v == acc + (b % 128) * Pow2(shift)
       IN  IF b < 128 THEN [ok |-> TRUE, value |-> v, pos |-> pos + 1]
           ELSE ReadVarUintAt(bytes, pos + 1, shift + 7, v)

ReadVarUint(bytes, pos) == ReadVarUintAt(bytes, pos, 0, 0)

\* The zig-zag transform of WriteVarInt / ReadVarInt.
ZigZagEncode(n) == IF n >= 0 THEN 2 * n ELSE -2 * n - 1

ZigZagDecode(u) == IF u % 2 = 0 THEN u \div 2 ELSE -((u + 1) \div 2)

VarIntBytes(n) == VarUintBytes(ZigZagEncode(n))

(***************************************************************************)
(* CoordinateCodec (geometry/pointu_to_uint64.hpp, geometry_coding.hpp;    *)
(* spec 4.1).  A projected coordinate is an integer number of half cells.  *)
(***************************************************************************)
\* the projected bound: coordinates lie in -CoordBound..CoordBound
CoordBound == 4

\* one quantization cell, which is MercatorBounds::GetCellID2PointAbsEpsilon()
CellSize == 2

Clamp(x, lo, hi) == IF x < lo THEN lo ELSE IF x > hi THEN hi ELSE x

\* PointD2PointU: clamp to the bound, then round to the nearest cell.
CoordD2U(x) == (Clamp(x, -CoordBound, CoordBound) + CoordBound + (CellSize \div 2)) \div CellSize

PointD2PointU(p) == <<CoordD2U(p[1]), CoordD2U(p[2])>>

\* PointU2PointD: the projected coordinate of a cell.
CoordU2D(u) == u * CellSize - CoordBound

PointU2PointD(u) == <<CoordU2D(u[1]), CoordU2D(u[2])>>

\* Morton interleave of two unsigned numbers, and its inverse.
RECURSIVE BitwiseMerge(_, _)
BitwiseMerge(a, b) ==
  IF a = 0 /\ b = 0 THEN 0
  ELSE (a % 2) + 2 * (b % 2) + 4 * BitwiseMerge(a \div 2, b \div 2)

RECURSIVE BitwiseSplitX(_)
BitwiseSplitX(n) == IF n = 0 THEN 0 ELSE (n % 2) + 2 * BitwiseSplitX(n \div 4)

BitwiseSplit(n) == <<BitwiseSplitX(n), BitwiseSplitX(n \div 2)>>

\* EncodeDelta(actual, prediction) and DecodeDelta(delta, prediction) on PointU.
EncodeDelta(actual, prediction) ==
  BitwiseMerge(ZigZagEncode(actual[1] - prediction[1]),
               ZigZagEncode(actual[2] - prediction[2]))

DecodeDelta(delta, prediction) ==
  LET d == BitwiseSplit(delta)
  IN  <<prediction[1] + ZigZagDecode(d[1]), prediction[2] + ZigZagDecode(d[2])>>

\* serial::SaveOuterPath(points, base, sink): the count, then every point as
\* the var_uint of its delta against the point before it (the base first).
RECURSIVE PathDeltaBytes(_, _)
PathDeltaBytes(points, prev) ==
  IF points = <<>> THEN <<>>
  ELSE LET u == PointD2PointU(Head(points))
       IN  VarUintBytes(EncodeDelta(u, prev)) \o PathDeltaBytes(Tail(points), u)

SaveOuterPath(points, base) ==
  VarUintBytes(Len(points)) \o PathDeltaBytes(points, base)

\* serial::LoadOuterPath(src, base, points): appends the decoded points to
\* points; the result holds the points and the position after the path.
RECURSIVE LoadPathPoints(_, _, _, _, _)
LoadPathPoints(bytes, pos, n, prev, acc) ==
  IF n = 0 THEN [ok |-> TRUE, points |-> acc, pos |-> pos]
  ELSE LET r == ReadVarUint(bytes, pos)
           u == DecodeDelta(r.value, prev)
       IN  IF ~r.ok THEN [ok |-> FALSE, points |-> acc, pos |-> r.pos]
           ELSE LoadPathPoints(bytes, r.pos, n - 1, u, Append(acc, PointU2PointD(u)))

LoadOuterPath(bytes, pos, base, points) ==
  LET c == ReadVarUint(bytes, pos)
  IN  IF ~c.ok THEN [ok |-> FALSE, points |-> points, pos |-> c.pos]
      ELSE LoadPathPoints(bytes, c.pos, c.value, base, points)

(***************************************************************************)
(* m2::RectD and m2::Region (geometry/rect2d.hpp, region2d.hpp)            *)
(***************************************************************************)
\* stands for numeric_limits<double>::max() in the empty rect
HugeCoord == 1000000

\* m2::RectD::GetEmptyRect(), also the default-constructed rect
EmptyRect == [minX |-> HugeCoord, minY |-> HugeCoord,
              maxX |-> -HugeCoord, maxY |-> -HugeCoord]

\* m2::RectD::Add(p)
RectAdd(r, p) == [minX |-> Min(r.minX, p[1]), minY |-> Min(r.minY, p[2]),
                  maxX |-> Max(r.maxX, p[1]), maxY |-> Max(r.maxY, p[2])]

\* m2::Region::Contains(p) for the polygon ring: the crossing-number test.
\* An edge from a to b is crossed by the ray from p to +x when the edge spans
\* p's y and p lies left of it.
EdgeCrossed(a, b, p) ==
  /\ (a[2] > p[2]) # (b[2] > p[2])
  /\ IF b[2] > a[2]
       THEN (p[1] - a[1]) * (b[2] - a[2]) < (b[1] - a[1]) * (p[2] - a[2])
       ELSE (p[1] - a[1]) * (b[2] - a[2]) > (b[1] - a[1]) * (p[2] - a[2])

RegionContains(ring, p) ==
  /\ Len(ring) >= 3
  /\ Cardinality({i \in 1..Len(ring) :
                    EdgeCrossed(ring[i], ring[(i % Len(ring)) + 1], p)}) % 2 = 1


(***************************************************************************)
(* The common header byte (feature.hpp; spec 3)                            *)
(***************************************************************************)
HEADER_TYPE_MASK == 7

HEADER_HAS_NAME == 8

HEADER_HAS_LAYER == 16

HEADER_HAS_POINT == 32

HEADER_IS_LINE == 64

HEADER_IS_AREA == 128

\* FeatureBuilder1::m_maxTypesCount
m_maxTypesCount == 7

\* uint32_t(-1), the all-ones word: kept as -1, apart from every offset 0..2^32-2
\* (integers here are 32-bit signed).
kInvalidOffset == -1

\* number of scales of the header, and size of an offsets table
ScalesCount == 4

\* h & flag, as a truth value
HasFlag(h, flag) == (h \div flag) % 2 = 1

(***************************************************************************)
(* FeatureBase: the reader of the base block.  A reader is a record; the   *)
(* fields of FeatureType (the Stage-2 reader) are part of the same record. *)
(* Offsets are 0-based as in the source; sequences are 1-based.            *)
(***************************************************************************)
\* offset of the first type, right after the header byte (feature.hpp)
m_TypesOffset == 1

NoFailure == "none"

\* A uint32_t as its four bytes, low byte first (m_ptsSimpMask).
Word32Zero == <<0, 0, 0, 0>>

\* An entry of an offsets table (offsets_t, one entry per scale index) that
\* nothing was stored into yet: it holds an indeterminate value.
Indeterminate == -2

NoOffsets == [i \in 1..ScalesCount |-> Indeterminate]

\* A container where no geometry is stored: per kind and scale index, the
\* offset the geometry starts at (kInvalidOffset: none) and its points.
NoStream == [offset |-> kInvalidOffset, points |-> <<>>]

NoContainer ==
  [geometry  |-> [i \in 1..ScalesCount |-> NoStream],
   triangles |-> [i \in 1..ScalesCount |-> NoStream]]

\* m_InnerStats.MakeZero()
ZeroStats == [m_Points |-> 0, m_Strips |-> 0, m_Size |-> 0]

\* A reader before its first Deserialize.  m_Types, m_Center and the offsets
\* tables hold no defined value until the stage that fills them has run.
FreshReader ==
  [m_Data |-> <<>>, m_base |-> <<0, 0>>,
   m_Types |-> <<>>, m_Layer |-> 0, m_Name |-> <<>>, m_Center |-> <<0, 0>>,
   m_LimitRect |-> EmptyRect,
   m_bTypesParsed |-> FALSE, m_bCommonParsed |-> FALSE,
   m_CommonOffset |-> 0, m_Header2Offset |-> 0,
   m_header |-> <<>>, m_cont |-> NoContainer,
   m_bHeader2Parsed |-> FALSE, m_bPointsParsed |-> FALSE,
   m_bTrianglesParsed |-> FALSE,
   m_ptsSimpMask |-> Word32Zero,
   m_Points |-> <<>>, m_Triangles |-> <<>>,
   m_ptsOffsets |-> NoOffsets, m_trgOffsets |-> NoOffsets,
   m_InnerStats |-> ZeroStats,
   failed |-> NoFailure]

\* FeatureBase::Deserialize(data, offset, base)
BaseDeserialize(f, data, base) ==
  [f EXCEPT !.m_Data = data, !.m_base = base,
            !.m_CommonOffset = 0, !.m_Header2Offset = 0,
            !.m_bTypesParsed = FALSE, !.m_bCommonParsed = FALSE,
            !.m_Layer = 0, !.m_Name = <<>>, !.m_LimitRect = EmptyRect]

\* FeatureBase::Header() and GetTypesCount()
Header(f) == f.m_Data[1]

GetTypesCount(f) == Header(f) % (HEADER_TYPE_MASK + 1)

\* An ASSERT: aborts in a debug build when cond is false; g is the reader
\* the code goes on with otherwise.
AssertThen(f, cond, what, g) ==
  IF debug /\ ~cond THEN [f EXCEPT !.failed = what] ELSE g

\* The loop of ParseTypes: n var_uints from position pos.
RECURSIVE ReadTypes(_, _, _, _)
ReadTypes(bytes, pos, n, acc) ==
  IF n = 0 THEN [ok |-> TRUE, types |-> acc, pos |-> pos]
  ELSE LET r == ReadVarUint(bytes, pos)
       IN  IF ~r.ok THEN [ok |-> FALSE, types |-> acc, pos |-> r.pos]
           ELSE ReadTypes(bytes, r.pos, n - 1, Append(acc, r.value))

\* A read beyond the end of m_Data: ArrayByteSource checks nothing.
ReadPastEnd == "read past the end of the buffer"

\* FeatureBase::ParseTypes.  On an empty m_Data the header byte that
\* GetTypesCount reads lies past the end already.
ParseTypes(f) ==
  AssertThen(f, ~f.m_bTypesParsed, "ASSERT(!m_bTypesParsed)",
    IF f.m_Data = <<>> THEN [f EXCEPT !.failed = ReadPastEnd]
    ELSE
    Local(ReadTypes(f.m_Data, m_TypesOffset + 1, GetTypesCount(f), <<>>),
          LAMBDA r :
            IF ~r.ok THEN [f EXCEPT !.failed = ReadPastEnd]
            ELSE [f EXCEPT !.m_Types = r.types,
                           !.m_bTypesParsed = TRUE,
                           !.m_CommonOffset = r.pos - 1]))

\* The layer of ParseCommon, read from position pos when the header has it;
\* the result carries the position after it.
ReadLayer(f, pos) ==
  IF HasFlag(Header(f), HEADER_HAS_LAYER)
    THEN Local(ReadVarUint(f.m_Data, pos),
               LAMBDA r : [ok |-> r.ok, layer |-> ZigZagDecode(r.value), pos |-> r.pos])
    ELSE [ok |-> TRUE, layer |-> f.m_Layer, pos |-> pos]

\* The name of ParseCommon: the var_uint of its length less one and its bytes.
ReadName(f, pos) ==
  IF HasFlag(Header(f), HEADER_HAS_NAME)
    THEN Local(ReadVarUint(f.m_Data, pos),
               LAMBDA r :
                 [ok   |-> r.ok /\ r.pos + r.value <= Len(f.m_Data),
                  name |-> SubSeq(f.m_Data, r.pos, Min(r.pos + r.value, Len(f.m_Data))),
                  pos  |-> r.pos + r.value + 1])
    ELSE [ok |-> TRUE, name |-> f.m_Name, pos |-> pos]

\* The center of ParseCommon, added to the limit rect.
ReadCenter(f, pos) ==
  IF HasFlag(Header(f), HEADER_HAS_POINT)
    THEN Local(ReadVarUint(f.m_Data, pos),
               LAMBDA r :
                 Local(PointU2PointD(DecodeDelta(r.value, f.m_base)),
                       LAMBDA c : [ok |-> r.ok, center |-> c,
                                   rect |-> RectAdd(f.m_LimitRect, c), pos |-> r.pos]))
    ELSE [ok |-> TRUE, center |-> f.m_Center, rect |-> f.m_LimitRect, pos |-> pos]

\* The three optional fields ParseCommon reads, from position pos on.
ReadCommon(f, pos) ==
  Local(ReadLayer(f, pos), LAMBDA lay :
    Local(ReadName(f, lay.pos), LAMBDA nam :
      Local(ReadCenter(f, nam.pos), LAMBDA ctr :
        [ok     |-> lay.ok /\ nam.ok /\ ctr.ok,
         layer  |-> lay.layer,
         name   |-> nam.name,
         center |-> ctr.center,
         rect   |-> ctr.rect,
         pos    |-> ctr.pos])))

\* The body of ParseCommon after its lazy call of ParseTypes.
ParseCommonBody(f) ==
  Local(ReadCommon(f, f.m_CommonOffset + 1), LAMBDA r :
    IF ~r.ok THEN [f EXCEPT !.failed = ReadPastEnd]
    ELSE [f EXCEPT !.m_Layer = r.layer, !.m_Name = r.name,
                   !.m_Center = r.center, !.m_LimitRect = r.rect,
                   !.m_bCommonParsed = TRUE,
                   !.m_Header2Offset = r.pos - 1])

\* ParseCommon as a stage that demands its prerequisite instead of running it.
ParseCommonStrict(f) ==
  AssertThen(f, ~f.m_bCommonParsed, "ASSERT(!m_bCommonParsed)",
    AssertThen(f, f.m_bTypesParsed, "ASSERT(m_bTypesParsed)",
      ParseCommonBody(f)))

\* FeatureBase::ParseCommon
ParseCommon(f) ==
  AssertThen(f, ~f.m_bCommonParsed, "ASSERT(!m_bCommonParsed)",
    Local(IF ~f.m_bTypesParsed THEN ParseTypes(f) ELSE f, LAMBDA g :
      IF g.failed # NoFailure THEN g ELSE ParseCommonBody(g)))

\* FeatureBase::ParseAll
BaseParseAll(f) == IF ~f.m_bCommonParsed THEN ParseCommon(f) ELSE f


(***************************************************************************)
(* FeatureBuilder1.  A builder is a record of its members.                 *)
(***************************************************************************)
\* FeatureBuilder1::FeatureBuilder1().  m_Center is not initialised by the
\* constructor; it is read only when m_bPoint is set, which SetCenter sets
\* together with it.
FreshBuilder ==
  [m_Types |-> <<>>, m_Layer |-> 0, m_Name |-> <<>>,
   m_bPoint |-> FALSE, m_bLinear |-> FALSE, m_bArea |-> FALSE,
   m_Center |-> <<0, 0>>, m_LimitRect |-> EmptyRect,
   m_Geometry |-> <<>>, m_Holes |-> <<>>]

\* FeatureBuilder1::SetCenter
SetCenter(b, p) ==
  [b EXCEPT !.m_Center = p, !.m_bPoint = TRUE, !.m_LimitRect = RectAdd(@, p)]

\* FeatureBuilder1::AddPoint
AddPoint(b, p) ==
  [b EXCEPT !.m_Geometry = Append(@, p), !.m_LimitRect = RectAdd(@, p)]

\* The loop of SetAreaAddHoles: the holes whose front() the region contains.
RECURSIVE ContainedHoles(_, _)
ContainedHoles(ring, holes) ==
  IF holes = <<>> THEN <<>>
  ELSE (IF RegionContains(ring, Head(holes)[1]) THEN <<Head(holes)>> ELSE <<>>)
         \o ContainedHoles(ring, Tail(holes))

\* SetAreaAddHoles without the containment test: every hole is stored.
SetAreaAddHolesNoFilter(b, holes) ==
  [b EXCEPT !.m_bArea = TRUE, !.m_Holes = holes]

\* FeatureBuilder1::SetAreaAddHoles (every hole given is non-empty)
SetAreaAddHoles(b, holes) ==
  [b EXCEPT !.m_bArea = TRUE,
            !.m_Holes = IF holes = <<>> THEN <<>>
                        ELSE ContainedHoles(b.m_Geometry, holes)]

\* FeatureBuilder1::SetLinear (feature.hpp)
SetLinear(b) == [b EXCEPT !.m_bLinear = TRUE]

\* FeatureBuilder1::AddName
AddName(b, name) == [b EXCEPT !.m_Name = name]

\* FeatureBuilder1::AddType and AddTypes (feature.hpp)
AddType(b, t) == [b EXCEPT !.m_Types = Append(@, t)]

AddTypes(b, ts) == [b EXCEPT !.m_Types = @ \o ts]

\* sort(src.begin(), src.end()): insertion of x into the sorted sequence v
RECURSIVE InsertSorted(_, _)
InsertSorted(v, x) ==
  IF v = <<>> THEN <<x>>
  ELSE IF x <= Head(v) THEN <<x>> \o v
  ELSE <<Head(v)>> \o InsertSorted(Tail(v), x)

RECURSIVE SortedOf(_)
SortedOf(v) == IF v = <<>> THEN <<>> ELSE InsertSorted(SortedOf(Tail(v)), Head(v))

\* The types left as they were added: no sort before the difference.
SortTypesKeepsOrder(v) == v

\* The sort of AssignType_SetDifference (feature.cpp:86)
SortTypes(v) == SortedOf(v)

\* std::set_difference(a, b) on sorted ranges: the merge loop; an element of
\* b cancels one equal element of a.
RECURSIVE set_difference(_, _)
set_difference(a, b) ==
  IF a = <<>> THEN <<>>
  ELSE IF b = <<>> THEN a
  ELSE IF Head(a) < Head(b) THEN <<Head(a)>> \o set_difference(Tail(a), b)
  ELSE IF Head(b) < Head(a) THEN set_difference(a, Tail(b))
  ELSE set_difference(Tail(a), Tail(b))

\* FeatureBuilder1::AssignType_SetDifference(diffTypes): the builder after it
\* and the value returned.
AssignType_SetDifference(b, diffTypes) ==
  Local(set_difference(SortTypes(b.m_Types), diffTypes), LAMBDA types :
    [fb |-> [b EXCEPT !.m_Types = types], result |-> types # <<>>])

\* AddLayer with the upper clamp missing.
AddLayerNoUpperClamp(b, layer) ==
  [b EXCEPT !.m_Layer = IF layer < -10 THEN -10 ELSE layer]

\* FeatureBuilder1::AddLayer
AddLayer(b, layer) ==
  LET bound == 10
  IN  [b EXCEPT !.m_Layer = IF layer < -bound THEN -bound
                            ELSE IF layer > bound THEN bound
                            ELSE layer]

\* is_equal on doubles, points, rects and point vectors (feature.cpp:118-150)
is_equal(d1, d2) == (IF d1 >= d2 THEN d1 - d2 ELSE d2 - d1) < CellSize

is_equal_point(p1, p2) == is_equal(p1[1], p2[1]) /\ is_equal(p1[2], p2[2])

is_equal_rect(r1, r2) ==
  /\ is_equal(r1.minX, r2.minX) /\ is_equal(r1.minY, r2.minY)
  /\ is_equal(r1.maxX, r2.maxX) /\ is_equal(r1.maxY, r2.maxY)

is_equal_points(v1, v2) ==
  /\ Len(v1) = Len(v2)
  /\ \A i \in 1..Len(v1) : is_equal_point(v1[i], v2[i])

\* FeatureBuilder1::operator ==
BuilderEquals(a, b) ==
  /\ a.m_Types = b.m_Types
  /\ a.m_Layer = b.m_Layer
  /\ a.m_Name = b.m_Name
  /\ a.m_bPoint = b.m_bPoint
  /\ a.m_bLinear = b.m_bLinear
  /\ a.m_bArea = b.m_bArea
  /\ (a.m_bPoint => is_equal_point(a.m_Center, b.m_Center))
  /\ is_equal_rect(a.m_LimitRect, b.m_LimitRect)
  /\ is_equal_points(a.m_Geometry, b.m_Geometry)
  /\ Len(a.m_Holes) = Len(b.m_Holes)
  /\ \A i \in 1..Len(a.m_Holes) : is_equal_points(a.m_Holes[i], b.m_Holes[i])

\* FeatureBuilder1::CheckValid: TRUE when every CHECK of it passes.
CheckValid(b) ==
  /\ b.m_Types # <<>> /\ Len(b.m_Types) <= m_maxTypesCount
  /\ b.m_Layer >= -10 /\ b.m_Layer <= 10
  /\ (b.m_bPoint \/ b.m_bLinear \/ b.m_bArea)
  /\ (~b.m_bLinear \/ Len(b.m_Geometry) >= 2)
  /\ (~b.m_bArea \/ Len(b.m_Geometry) >= 3)
  /\ (b.m_Holes = <<>> \/ b.m_bArea)
  /\ \A i \in 1..Len(b.m_Holes) : Len(b.m_Holes[i]) >= 3

\* FeatureBuilder1::GetHeader
\* if (cond) header |= flag
OrFlag(header, cond, flag) == IF cond THEN BitOr(header, flag) ELSE header

\* GetHeader with the layer flag set whatever the layer.
GetHeaderLayerAlways(b) ==
  OrFlag(OrFlag(OrFlag(OrFlag(OrFlag(U8(Len(b.m_Types)),
                                     b.m_Name # <<>>, HEADER_HAS_NAME),
                              TRUE, HEADER_HAS_LAYER),
                       b.m_bPoint, HEADER_HAS_POINT),
                b.m_bLinear, HEADER_IS_LINE),
         b.m_bArea, HEADER_IS_AREA)

GetHeader(b) ==
  OrFlag(OrFlag(OrFlag(OrFlag(OrFlag(U8(Len(b.m_Types)),
                                     b.m_Name # <<>>, HEADER_HAS_NAME),
                              b.m_Layer # 0, HEADER_HAS_LAYER),
                       b.m_bPoint, HEADER_HAS_POINT),
                b.m_bLinear, HEADER_IS_LINE),
         b.m_bArea, HEADER_IS_AREA)

\* What a writer puts into its sink: a sequence of fields, each the bytes of
\* one write (or one run of writes) and a tag naming what was written.
Field(tag, bytes) == [field |-> tag, bytes |-> bytes]

RECURSIVE FieldBytes(_)
FieldBytes(fields) ==
  IF fields = <<>> THEN <<>> ELSE Head(fields).bytes \o FieldBytes(Tail(fields))

\* FeatureBuilder1::SerializeBase(data, basePoint), as the fields written
SerializeBase(b, basePoint) ==
  <<Field("header", <<GetHeader(b)>>)>>
  \o [i \in 1..Len(b.m_Types) |-> Field("type", VarUintBytes(b.m_Types[i]))]
  \o (IF b.m_Layer # 0 THEN <<Field("layer", VarIntBytes(b.m_Layer))>> ELSE <<>>)
  \o (IF b.m_Name # <<>>
        THEN <<Field("name", VarUintBytes(Len(b.m_Name) - 1) \o b.m_Name)>>
        ELSE <<>>)
  \o (IF b.m_bPoint
        THEN <<Field("center",
                     VarUintBytes(EncodeDelta(PointD2PointU(b.m_Center), basePoint)))>>
        ELSE <<>>)

\* FeatureBuilder1::Serialize(data) after its CHECK(CheckValid()) and before
\* the debug self-check, as the fields written
Serialize(b) ==
  SerializeBase(b, <<0, 0>>)
  \o (IF b.m_bLinear \/ b.m_bArea
        THEN <<Field("geometry", SaveOuterPath(b.m_Geometry, <<0, 0>>))>>
        ELSE <<>>)
  \o (IF b.m_bArea
        THEN <<Field("holeCount", VarUintBytes(Len(b.m_Holes)))>>
             \o [i \in 1..Len(b.m_Holes) |->
                   Field("hole", SaveOuterPath(b.m_Holes[i], <<0, 0>>))]
        ELSE <<>>)

\* CalcRect(points, rect)
RECURSIVE CalcRect(_, _)
CalcRect(points, rect) ==
  IF points = <<>> THEN rect
  ELSE CalcRect(Tail(points), RectAdd(rect, Head(points)))

\* FeatureBase::InitFeatureBuilder(fb), on a reader that ParseAll has parsed
InitFeatureBuilder(f, b) ==
  Local(AddName(AddLayer(AddTypes(b, f.m_Types), f.m_Layer), f.m_Name), LAMBDA b1 :
    Local(IF HasFlag(Header(f), HEADER_HAS_POINT)
            THEN SetCenter(b1, f.m_Center) ELSE b1, LAMBDA b2 :
      Local(IF HasFlag(Header(f), HEADER_IS_LINE) THEN SetLinear(b2) ELSE b2, LAMBDA b3 :
        IF HasFlag(Header(f), HEADER_IS_AREA) THEN SetAreaAddHoles(b3, <<>>) ELSE b3)))

\* The loop of Deserialize that reads count holes from position pos.
RECURSIVE LoadHoles(_, _, _, _)
LoadHoles(bytes, pos, n, acc) ==
  IF n = 0 THEN [ok |-> TRUE, holes |-> acc, pos |-> pos]
  ELSE Local(LoadOuterPath(bytes, pos, <<0, 0>>, <<>>), LAMBDA r :
         IF ~r.ok THEN [ok |-> FALSE, holes |-> acc, pos |-> r.pos]
         ELSE LoadHoles(bytes, r.pos, n - 1, Append(acc, r.points)))

\* FeatureBuilder1::Deserialize(data) on the builder b: the builder after it
\* and what aborted it, if anything did.
Deserialize(b, data) ==
  Local(BaseParseAll(BaseDeserialize(FreshReader, data, <<0, 0>>)), LAMBDA f :
  Local(InitFeatureBuilder(f, b), LAMBDA b1 :
  Local(IF b1.m_bLinear \/ b1.m_bArea
          THEN LoadOuterPath(data, f.m_Header2Offset + 1, <<0, 0>>, b1.m_Geometry)
          ELSE [ok |-> TRUE, points |-> b1.m_Geometry, pos |-> f.m_Header2Offset + 1],
        LAMBDA g :
  Local(IF b1.m_bLinear \/ b1.m_bArea
          THEN [b1 EXCEPT !.m_Geometry = g.points,
                          !.m_LimitRect = CalcRect(g.points, @)]
          ELSE b1,
        LAMBDA b2 :
  Local(IF b2.m_bArea THEN ReadVarUint(data, g.pos)
                      ELSE [ok |-> TRUE, value |-> 0, pos |-> g.pos],
        LAMBDA c :
  Local(LoadHoles(data, c.pos, c.value, b2.m_Holes), LAMBDA hs :
  Local([b2 EXCEPT !.m_Holes = hs.holes], LAMBDA b3 :
    IF f.failed # NoFailure THEN [fb |-> b, failed |-> f.failed]
    ELSE IF ~(g.ok /\ c.ok /\ hs.ok) THEN [fb |-> b1, failed |-> ReadPastEnd]
    ELSE IF ~CheckValid(b3) THEN [fb |-> b3, failed |-> "CHECK(CheckValid())"]
    ELSE [fb |-> b3, failed |-> NoFailure])))))))


(***************************************************************************)
(* FeatureBuilder2 and buffers_holder_t                                    *)
(***************************************************************************)
\* buffers_holder_t as constructed
EmptyHolder ==
  [m_innerPts |-> <<>>, m_innerTrg |-> <<>>,
   m_ptsMask |-> 0, m_trgMask |-> 0, m_ptsSimpMask |-> 0,
   m_ptsOffset |-> <<>>, m_trgOffset |-> <<>>]

\* FeatureBuilder1::PreSerialize (feature.hpp): a feature without any
\* geometry flag is not written.
BasePreSerialize(b) == b.m_bPoint \/ b.m_bLinear \/ b.m_bArea

\* FeatureBuilder2::PreSerialize(data): the builder after it and its result
\* PreSerialize looking at the masks only: a line with inline points and no
\* outer geometry loses its flag.
PreSerializeMasksOnly(b, d) ==
  LET b1 == IF d.m_ptsMask = 0 THEN [b EXCEPT !.m_bLinear = FALSE] ELSE b
      b2 == IF d.m_trgMask = 0 THEN [b1 EXCEPT !.m_bArea = FALSE] ELSE b1
  IN  [fb |-> b2, result |-> BasePreSerialize(b2)]

PreSerialize(b, d) ==
  LET b1 == IF d.m_ptsMask = 0 /\ d.m_innerPts = <<>>
              THEN [b EXCEPT !.m_bLinear = FALSE] ELSE b
      b2 == IF d.m_trgMask = 0 /\ d.m_innerTrg = <<>>
              THEN [b1 EXCEPT !.m_bArea = FALSE] ELSE b1
  IN  [fb |-> b2, result |-> BasePreSerialize(b2)]

\* reverse(v.begin(), v.end())
Reverse(v) == [i \in 1..Len(v) |-> v[Len(v) + 1 - i]]

\* serial::WriteVarUintArray(v, sink): every element as a var_uint; no count
\* is written, the reader takes the number of elements from the mask.
RECURSIVE VarUintSeqBytes(_)
VarUintSeqBytes(v) ==
  IF v = <<>> THEN <<>> ELSE VarUintBytes(Head(v)) \o VarUintSeqBytes(Tail(v))

WriteVarUintArray(v) == VarUintSeqBytes(v)


\* serial::SaveInnerPath(points, base, sink) and SaveInnerTriangles: every
\* point as the var_uint of its delta against the point before it, the base
\* first; the number of points is not written.
SaveInnerPath(points, basePoint) == PathDeltaBytes(points, basePoint)

SaveInnerTriangles(points, basePoint) == PathDeltaBytes(points, basePoint)

\* The bytes of the simplification mask: count bytes of v, low byte first.
RECURSIVE SimpMaskBytes(_, _)
SimpMaskBytes(v, count) ==
  IF count <= 0 THEN <<>>
  ELSE <<U8(v)>> \o SimpMaskBytes(Shr(v, 8), count - 1)

\* The ASSERTs of BitSink::Write on its arguments.
BitWriteArgsOk(value, count) == count < 9 /\ Shr(value, count) = 0

\* bitSink.Write(value, count) on the sink state bs = [pos, current, sink, ok]
BitWrite(bs, value, count) ==
  Local(BitSinkWrite(bs.pos, bs.current, bs.sink, value, count), LAMBDA w :
    [pos |-> w.pos, current |-> w.current, sink |-> w.sink,
     ok |-> bs.ok /\ BitWriteArgsOk(value, count)])

\* The bit fields of FeatureBuilder2::Serialize (feature.cpp:399-415): the
\* bytes the BitSink emits and whether its ASSERTs held.
\* The bit fields with the mask of a line written whatever its count.
Header2BitsMaskAlways(b, d, ptsCount, trgCount) ==
  Local([pos |-> 0, current |-> 0, sink |-> <<>>, ok |-> TRUE], LAMBDA s0 :
  Local(IF b.m_bLinear THEN BitWrite(s0, ptsCount, 4) ELSE s0, LAMBDA s1 :
  Local(IF b.m_bLinear THEN BitWrite(s1, d.m_ptsMask, 4) ELSE s1, LAMBDA s2 :
  Local(IF b.m_bArea THEN BitWrite(s2, trgCount, 4) ELSE s2, LAMBDA s3 :
  Local(IF b.m_bArea /\ trgCount = 0 THEN BitWrite(s3, d.m_trgMask, 4) ELSE s3,
        LAMBDA s4 :
    [bytes |-> BitSinkFinish(s4.pos, s4.current, s4.sink).sink, ok |-> s4.ok])))))

Header2Bits(b, d, ptsCount, trgCount) ==
  Local([pos |-> 0, current |-> 0, sink |-> <<>>, ok |-> TRUE], LAMBDA s0 :
  Local(IF b.m_bLinear THEN BitWrite(s0, ptsCount, 4) ELSE s0, LAMBDA s1 :
  Local(IF b.m_bLinear /\ ptsCount = 0 THEN BitWrite(s1, d.m_ptsMask, 4) ELSE s1,
        LAMBDA s2 :
  Local(IF b.m_bArea THEN BitWrite(s2, trgCount, 4) ELSE s2, LAMBDA s3 :
  Local(IF b.m_bArea /\ trgCount = 0 THEN BitWrite(s3, d.m_trgMask, 4) ELSE s3,
        LAMBDA s4 :
    [bytes |-> BitSinkFinish(s4.pos, s4.current, s4.sink).sink, ok |-> s4.ok])))))

\* The offsets written without the reversal.
OffsetsAsPushed(v) == v

\* The offsets as FeatureBuilder2::Serialize orders them before writing.
OffsetsToWrite(v) == Reverse(v)

\* FeatureBuilder2::Serialize(data, base): the fields written into
\* data.m_buffer, the holder after it (its offsets reversed in place), and
\* the ASSERT that failed in a debug build, if one did.
Serialize2(b, d, basePoint) ==
  Local(U8(Len(d.m_innerPts)), LAMBDA ptsCount :
  Local(U8(Len(d.m_innerTrg)), LAMBDA trg0 :
  Local(IF trg0 > 0 THEN U8(trg0 - 2) ELSE trg0, LAMBDA trgCount :
  Local(Header2Bits(b, d, ptsCount, trgCount), LAMBDA bits :
  Local(OffsetsToWrite(d.m_ptsOffset), LAMBDA ptsOut :
  Local(OffsetsToWrite(d.m_trgOffset), LAMBDA trgOut :
    [fields |->
       SerializeBase(b, basePoint)
       \o (IF bits.bytes # <<>> THEN <<Field("header2", bits.bytes)>> ELSE <<>>)
       \o (IF ~b.m_bLinear THEN <<>>
           ELSE IF ptsCount > 0
             THEN (IF ptsCount > 2
                     THEN <<Field("simpMask",
                                  SimpMaskBytes(d.m_ptsSimpMask,
                                                (ptsCount - 2 + 3) \div 4))>>
                     ELSE <<>>)
                  \o <<Field("innerPts", SaveInnerPath(d.m_innerPts, basePoint))>>
             ELSE <<Field("ptsOffsets", WriteVarUintArray(ptsOut))>>)
       \o (IF ~b.m_bArea THEN <<>>
           ELSE IF trgCount > 0
             THEN <<Field("innerTrg", SaveInnerTriangles(d.m_innerTrg, basePoint))>>
             ELSE <<Field("trgOffsets", WriteVarUintArray(trgOut))>>),
     data   |-> [d EXCEPT
                   !.m_ptsOffset = IF b.m_bLinear /\ ptsCount = 0 THEN ptsOut ELSE @,
                   !.m_trgOffset = IF b.m_bArea /\ trgCount = 0 THEN trgOut ELSE @],
     failed |-> IF debug /\ trg0 > 0 /\ ~(trg0 > 2) THEN "ASSERT_GREATER(trgCount, 2)"
                ELSE IF debug /\ ~bits.ok THEN "ASSERT_EQUAL(value >> count, 0)"
                ELSE NoFailure]))))))


(***************************************************************************)
(* The state of every component before its first operation.  A             *)
(* specification starts its own component from its Init and keeps the      *)
(* other components at these values.                                       *)
(***************************************************************************)
\* BitSink(sink) and BitSource(p) as constructed, nothing written or read
InitBits ==
  /\ bs_pos = 0 /\ bs_current = 0 /\ bs_sink = <<>>
  /\ bs_log = <<>> /\ bs_finishes = 0
  /\ br_ptr = 1 /\ br_pos = 0 /\ br_out = <<>> /\ br_failed = FALSE

\* no call of GetScaleIndex made
NotCalled == [called |-> FALSE, aborted |-> FALSE, value |-> -1]

IdleScale ==
  /\ sc_header = <<>> /\ sc_offsets = <<>> /\ sc_scale = 0 /\ sc_result = NotCalled

\* no read_source_t, a reader that never deserialized.  data is src.m_data as
\* it is now; record holds the bytes of the feature the caller reads into
\* src.m_data.
NoSource ==
  [data |-> <<>>, record |-> <<>>, header |-> <<>>, base |-> <<0, 0>>,
   cont |-> NoContainer,
   fb |-> FreshBuilder, holder |-> EmptyHolder, fields |-> <<>>]

\* no call made yet; pre is the reader the call was made on
NoEnvironment == [stale |-> kInvalidOffset, shift |-> "wrap"]

NoCall == [op |-> "none", scale |-> 0, env |-> NoEnvironment, pre |-> FreshReader]

NothingKept == [i \in 0..(ScalesCount - 1) |-> [set |-> FALSE, points |-> <<>>]]

IdleReader ==
  /\ rd = FreshReader /\ rd_src = NoSource
  /\ rd_clean = TRUE /\ rd_kept = NothingKept /\ rd_calls = 0
  /\ rd_last = NoCall

\* no AssignType_SetDifference call made
NoDiff == [called |-> FALSE, before |-> <<>>, remove |-> <<>>, after |-> <<>>,
           result |-> FALSE]

\* a fresh FeatureBuilder1, nothing serialized
InitBuilder ==
  /\ fb = FreshBuilder
  /\ fb_phase = "build"
  /\ fb_failed = NoFailure
  /\ fb_fields = <<>>
  /\ fb_copy = FreshBuilder
  /\ fb_lastLayer = 0
  /\ fb_holesIn = [called |-> FALSE, holes |-> <<>>, ring |-> <<>>]
  /\ fb_diff = NoDiff


\* no builder handed to the Stage-2 writer
IdleWriter ==
  /\ w2_fb = FreshBuilder /\ w2_data = EmptyHolder /\ w2_base = <<0, 0>>
  /\ w2_ptsScale = -1 /\ w2_trgScale = -1
  /\ w2_supplied = [pts |-> <<>>, trg |-> <<>>]
  /\ w2_phase = "idle" /\ w2_fields = <<>> /\ w2_failed = NoFailure


(***************************************************************************)
(* The bit packer specification: Write calls, Finish, then Read calls with *)
(* the widths written.                                                     *)
(***************************************************************************)
\* bounds of the bit-packer specification
MaxFields == 3

FieldWidths == {1, 3, 4, 5, 8}

FieldValues(count) == {1, Pow2(count) - 1, Pow2(count - 1)}

MaxFinish == 2

\* bitSink.Write(value, count): ASSERT_LESS(count, 9), ASSERT_EQUAL(value >> count, 0)
\* hold by the choice of inputs.
Write(value, count) ==
  /\ bs_finishes = 0
  /\ Len(bs_log) < MaxFields
  /\ \E w \in {BitSinkWrite(bs_pos, bs_current, bs_sink, value, count)} :
         /\ bs_pos' = w.pos
         /\ bs_current' = w.current
         /\ bs_sink' = w.sink
         /\ bs_log' = Append(bs_log, [value |-> value, count |-> count,
                                      byte |-> w.at.byte, bit |-> w.at.bit,
                                      prevPos |-> bs_pos])
  /\ UNCHANGED <<bs_finishes, br_ptr, br_pos, br_out, br_failed>>

\* bitSink.Finish()
Finish ==
  /\ bs_finishes < MaxFinish
  /\ br_out = <<>> /\ ~br_failed
  /\ \E f \in {BitSinkFinish(bs_pos, bs_current, bs_sink)} :
         /\ bs_pos' = f.pos
         /\ bs_current' = f.current
         /\ bs_sink' = f.sink
  /\ bs_finishes' = bs_finishes + 1
  /\ UNCHANGED <<bs_log, br_ptr, br_pos, br_out, br_failed>>

\* bitSource.Read(count) on the finished bytes, with the width the writer
\* used for the field of the same index.
Read ==
  /\ bs_finishes > 0
  /\ ~br_failed
  /\ Len(br_out) < Len(bs_log)
  /\ br_ptr <= Len(bs_sink)
  /\ \E r \in {BitSourceRead(bs_sink, br_ptr, br_pos, bs_log[Len(br_out) + 1].count)} :
         IF r.ok \/ ~debug
           THEN /\ br_ptr' = r.ptr
                /\ br_pos' = r.pos
                /\ br_out' = Append(br_out, r.v)
                /\ br_failed' = FALSE
           ELSE /\ br_failed' = TRUE
                /\ UNCHANGED <<br_ptr, br_pos, br_out>>
  /\ UNCHANGED <<bs_pos, bs_current, bs_sink, bs_log, bs_finishes>>

\* the bit packer alone: the build is chosen once, nothing else runs
BitsStart ==
  /\ debug \in BOOLEAN
  /\ InitBits /\ IdleScale /\ InitBuilder /\ IdleWriter /\ IdleReader

BitsOnly == UNCHANGED <<debug, scaleVars, builderVars, writerVars, readerVars>>

NextBits ==
  \/ \E count \in FieldWidths : \E value \in FieldValues(count) :
       Write(value, count) /\ BitsOnly
  \/ Finish /\ BitsOnly
  \/ Read /\ BitsOnly

SpecBits == BitsStart /\ [][NextBits]_vars

(***************************************************************************)
(* Claims about the bit packer (SpecBits)                                  *)
(***************************************************************************)
\* The byte stream as the sink holds it plus the pending byte of the BitSink.
PackedBytes == bs_sink \o (IF bs_pos > 0 THEN <<bs_current>> ELSE <<>>)

\* Where the byte-boundary rule puts field i, computed from the widths alone.
RECURSIVE RulePlace(_, _)
RulePlace(log, i) ==
  IF i = 1 THEN [byte |-> 1, bit |-> 0]
  ELSE Local(RulePlace(log, i - 1), LAMBDA p :
         IF p.bit + log[i - 1].count + log[i].count > 8
           THEN [byte |-> p.byte + 1, bit |-> 0]
           ELSE [byte |-> p.byte, bit |-> p.bit + log[i - 1].count])

\* C8: every field written lies LSB-first at the current bit position of the
\* current byte, unless position + count exceeds 8, and then at bit 0 of the
\* next byte; no field straddles two bytes; Finish emits the pending byte
\* exactly when at least one bit is pending.
C8_ByteBoundaryRule ==
  /\ \A i \in 1..Len(bs_log) :
       LET f == bs_log[i]
       IN  /\ f.byte = RulePlace(bs_log, i).byte
           /\ f.bit = RulePlace(bs_log, i).bit
           /\ f.bit = (IF f.prevPos + f.count > 8 THEN 0 ELSE f.prevPos)
           /\ f.bit + f.count <= 8
           /\ f.byte <= Len(PackedBytes)
           /\ BitAnd(Shr(PackedBytes[f.byte], f.bit), Pow2(f.count) - 1) = f.value
  /\ bs_finishes > 0 =>
       /\ bs_pos = 0
       /\ Len(bs_sink) = (IF bs_log = <<>> THEN 0
                          ELSE RulePlace(bs_log, Len(bs_log)).byte)

\* C8 witness: a 5-bit field written after a 4-bit field starts at bit 0 of
\* the second byte, and Finish has emitted both bytes.
C8_Witness ==
  /\ Len(bs_log) = 2
  /\ bs_log[1].count = 4 /\ bs_log[2].count = 5
  /\ bs_log[2].prevPos = 4
  /\ bs_log[2].byte = 2 /\ bs_log[2].bit = 0
  /\ bs_finishes = 2
  /\ Len(bs_sink) = 2

\* C9 (as claimed): every Read returns the value written for the field of the
\* same index, also when the bits left in the current byte are fewer than the
\* requested width, and no Read fails.
C9_ReadMirrorsWrite ==
  /\ ~br_failed
  /\ \A k \in 1..Len(br_out) : br_out[k] = bs_log[k].value

(***************************************************************************)
(* Scale resolution                                                        *)
(***************************************************************************)
\* bounds of the scale-resolution specification
MaxScale == 5

SomeOffset == 7

\* All strictly ascending sequences of n breakpoints with values in lo..hi.
RECURSIVE AscendingSeqs(_, _, _)
AscendingSeqs(n, lo, hi) ==
  IF n = 0 THEN {<<>>}
  ELSE UNION {{<<v>> \o t : t \in AscendingSeqs(n - 1, v + 1, hi)} : v \in lo..hi}

\* FeatureType::GetScaleIndex(int scale): the index of the first breakpoint
\* the scale does not exceed; count-1 for scale -1; -1 when there is none.
RECURSIVE GetScaleIndexLoop(_, _, _)
GetScaleIndexLoop(header, scale, i) ==
  IF i >= Len(header) THEN -1
  ELSE IF scale <= header[i + 1] THEN i
  ELSE GetScaleIndexLoop(header, scale, i + 1)

GetScaleIndex(header, scale) ==
  IF scale = -1 THEN Len(header) - 1 ELSE GetScaleIndexLoop(header, scale, 0)

\* The while loop of the scale == -1 branch: the last index that is valid,
\* -1 when there is none.
RECURSIVE LastValidLoop(_, _)
LastValidLoop(offsets, i) ==
  IF i >= 0 /\ offsets[i + 1] = kInvalidOffset
    THEN LastValidLoop(offsets, i - 1)
    ELSE i

\* The for loop of the other branch, written as the claim reads it: an index
\* whose offset is invalid is skipped and the search goes on.
RECURSIVE FirstFitLoopSkipsInvalid(_, _, _, _)
FirstFitLoopSkipsInvalid(header, scale, offsets, i) ==
  IF i >= Len(header) THEN -1
  ELSE IF scale <= header[i + 1] /\ offsets[i + 1] # kInvalidOffset THEN i
  ELSE FirstFitLoopSkipsInvalid(header, scale, offsets, i + 1)

\* The for loop of the other branch: the first index whose breakpoint the
\* scale does not exceed decides; an invalid offset there breaks the loop.
RECURSIVE FirstFitLoop(_, _, _, _)
FirstFitLoop(header, scale, offsets, i) ==
  IF i >= Len(header) THEN -1
  ELSE IF scale <= header[i + 1]
         THEN (IF offsets[i + 1] # kInvalidOffset THEN i ELSE -1)
  ELSE FirstFitLoop(header, scale, offsets, i + 1)

\* FeatureType::GetScaleIndex(int scale, offsets_t const & offsets): the value
\* returned, or aborted when CHECK(false, "Feature should have any geometry
\* ...") is reached.
GetScaleIndexOffsets(header, scale, offsets) ==
  IF scale = -1
    THEN LET i == LastValidLoop(offsets, Len(offsets) - 1)
         IN  IF i >= 0 THEN [aborted |-> FALSE, value |-> i]
                       ELSE [aborted |-> TRUE, value |-> -1]
    ELSE [aborted |-> FALSE, value |-> FirstFitLoop(header, scale, offsets, 0)]

OffsetsTables == [1..ScalesCount -> {kInvalidOffset, 0, SomeOffset}]

InitScale ==
  /\ sc_header \in AscendingSeqs(ScalesCount, 0, MaxScale)
  /\ sc_offsets \in OffsetsTables
  /\ sc_scale \in -1..(MaxScale + 1)
  /\ sc_result = NotCalled

\* The call GetScaleIndex(sc_scale, sc_offsets).
CallGetScaleIndex ==
  /\ ~sc_result.called
  /\ \E r \in {GetScaleIndexOffsets(sc_header, sc_scale, sc_offsets)} :
         sc_result' = [called |-> TRUE, aborted |-> r.aborted, value |-> r.value]
  /\ UNCHANGED <<sc_header, sc_offsets, sc_scale>>

ScaleStart ==
  /\ debug \in BOOLEAN
  /\ InitScale /\ InitBits /\ InitBuilder /\ IdleWriter /\ IdleReader

NextScale ==
  CallGetScaleIndex
    /\ UNCHANGED <<debug, bitVars, builderVars, writerVars, readerVars>>

SpecScale == ScaleStart /\ [][NextScale]_vars

\* The indices whose offset is valid, and those whose breakpoint fits the scale.
ValidIndices == {i \in 0..(Len(sc_offsets) - 1) : sc_offsets[i + 1] # kInvalidOffset}

FittingIndices == {i \in 0..(Len(sc_header) - 1) : sc_scale <= sc_header[i + 1]}

SetMin(S) == CHOOSE x \in S : \A y \in S : x <= y

SetMax(S) == CHOOSE x \in S : \A y \in S : x >= y

\* C3 (as claimed): for a scale other than -1 the call returns the smallest
\* index that both fits the scale and has a valid offset, -1 when there is
\* none; for scale -1 it returns the largest index with a valid offset.
C3_AsClaimed ==
  sc_result.called =>
    IF sc_scale # -1
      THEN /\ ~sc_result.aborted
           /\ sc_result.value = (IF FittingIndices \cap ValidIndices # {}
                                   THEN SetMin(FittingIndices \cap ValidIndices) ELSE -1)
      ELSE ValidIndices # {} =>
             ~sc_result.aborted /\ sc_result.value = SetMax(ValidIndices)

\* C3 (amended): for a scale other than -1 the call returns the smallest index
\* i with scale <= header.scale(i) when that index has a valid offset, and -1
\* when no index fits or that index has an invalid offset (later indices are
\* not tried); for scale -1 it returns the largest index with a valid offset,
\* and the CHECK aborts when no offset is valid.
C3_FirstFitDecides ==
  sc_result.called =>
    IF sc_scale # -1
      THEN /\ ~sc_result.aborted
           /\ sc_result.value =
                (IF FittingIndices # {} /\ SetMin(FittingIndices) \in ValidIndices
                   THEN SetMin(FittingIndices) ELSE -1)
      ELSE IF ValidIndices # {}
             THEN ~sc_result.aborted /\ sc_result.value = SetMax(ValidIndices)
             ELSE sc_result.aborted

\* C3 witness: the first fitting index has an invalid offset, a later fitting
\* index has a valid one, and the call returned -1.
C3_Witness ==
  /\ sc_result.called /\ ~sc_result.aborted /\ sc_result.value = -1
  /\ sc_scale # -1
  /\ FittingIndices # {}
  /\ SetMin(FittingIndices) \notin ValidIndices
  /\ FittingIndices \cap ValidIndices # {}

(***************************************************************************)
(* The Stage-1 builder specification: builder calls on a fresh builder,    *)
(* then Serialize, then Deserialize of the bytes into a fresh builder.     *)
(***************************************************************************)
\* The inputs.  AddType and AddPoint add in the order of one of the lists;
\* AddTypes adds a whole list to a builder without types.
TypeLists == {<<200, 1, 200>>}

LongTypeLists == {<<1, 2, 3, 4, 5, 6, 7>>, <<1, 2, 3, 4, 5, 6, 7, 8>>}

GeometryPaths == {<< <<0, 0>>, <<4, 0>>, <<0, 4>>, <<0, 0>> >>,
                  << <<-3, 4>>, <<1, 1>>, <<4, -4>> >>}

Centers == {<<-4, -3>>, <<1, 1>>}

Names == {<<>>, <<66, 67>>}

LayerArgs == {-11, 0, 10, 11}

HoleIn == << <<1, 1>>, <<2, 1>>, <<1, 2>> >>

HoleIn2 == << <<1, 2>>, <<2, 1>>, <<1, 1>> >>

HoleOut == << <<3, 3>>, <<4, 3>>, <<3, 4>> >>

HoleShort == << <<1, 1>>, <<2, 1>> >>

HoleLists == {<<>>, <<HoleOut>>, <<HoleIn, HoleOut, HoleIn2>>, <<HoleShort>>}

IsPrefixOfSome(q, lists) ==
  \E l \in lists : Len(q) <= Len(l) /\ SubSeq(l, 1, Len(q)) = q

CallAddType(t) ==
  /\ fb_phase = "build"
  /\ IsPrefixOfSome(Append(fb.m_Types, t), TypeLists)
  /\ fb' = AddType(fb, t)
  /\ UNCHANGED <<fb_phase, fb_failed, fb_fields, fb_copy, fb_lastLayer, fb_holesIn>>

CallAddTypes(ts) ==
  /\ fb_phase = "build"
  /\ fb.m_Types = <<>>
  /\ fb' = AddTypes(fb, ts)
  /\ UNCHANGED <<fb_phase, fb_failed, fb_fields, fb_copy, fb_lastLayer, fb_holesIn>>

CallAddLayer(layer) ==
  /\ fb_phase = "build"
  /\ fb' = AddLayer(fb, layer)
  /\ fb_lastLayer' = layer
  /\ UNCHANGED <<fb_phase, fb_failed, fb_fields, fb_copy, fb_holesIn>>

CallAddName(name) ==
  /\ fb_phase = "build"
  /\ fb' = AddName(fb, name)
  /\ UNCHANGED <<fb_phase, fb_failed, fb_fields, fb_copy, fb_lastLayer, fb_holesIn>>

CallSetCenter(p) ==
  /\ fb_phase = "build"
  /\ fb' = SetCenter(fb, p)
  /\ UNCHANGED <<fb_phase, fb_failed, fb_fields, fb_copy, fb_lastLayer, fb_holesIn>>

CallAddPoint(p) ==
  /\ fb_phase = "build"
  /\ IsPrefixOfSome(Append(fb.m_Geometry, p), GeometryPaths)
  /\ fb' = AddPoint(fb, p)
  /\ UNCHANGED <<fb_phase, fb_failed, fb_fields, fb_copy, fb_lastLayer, fb_holesIn>>

CallSetLinear ==
  /\ fb_phase = "build"
  /\ fb' = SetLinear(fb)
  /\ UNCHANGED <<fb_phase, fb_failed, fb_fields, fb_copy, fb_lastLayer, fb_holesIn>>

CallSetAreaAddHoles(holes) ==
  /\ fb_phase = "build"
  /\ fb' = SetAreaAddHoles(fb, holes)
  /\ fb_holesIn' = [called |-> TRUE, holes |-> holes, ring |-> fb.m_Geometry]
  /\ UNCHANGED <<fb_phase, fb_failed, fb_fields, fb_copy, fb_lastLayer>>

\* fb.Serialize(data): CHECK(CheckValid()), the writes, and in a debug build
\* the self-check that deserializes a copy of data and compares.
CallSerialize ==
  /\ fb_phase = "build"
  /\ IF ~CheckValid(fb)
       THEN /\ fb_phase' = "failed"
            /\ fb_failed' = "CHECK(CheckValid())"
            /\ UNCHANGED fb_fields
       ELSE \E fields \in {Serialize(fb)} :
            \E d \in {Deserialize(FreshBuilder, FieldBytes(fields))} :
                /\ fb_fields' = fields
                /\ IF debug /\ d.failed # NoFailure
                     THEN fb_phase' = "failed" /\ fb_failed' = d.failed
                     ELSE IF debug /\ ~BuilderEquals(d.fb, fb)
                     THEN fb_phase' = "failed" /\ fb_failed' = "ASSERT(fb == *this)"
                     ELSE fb_phase' = "serialized" /\ UNCHANGED fb_failed
  /\ UNCHANGED <<fb, fb_copy, fb_lastLayer, fb_holesIn>>

\* FeatureBuilder1 fresh; fresh.Deserialize(data) on the bytes written
CallDeserialize ==
  /\ fb_phase = "serialized"
  /\ \E d \in {Deserialize(FreshBuilder, FieldBytes(fb_fields))} :
         /\ fb_copy' = d.fb
         /\ fb_failed' = d.failed
         /\ fb_phase' = IF d.failed = NoFailure THEN "deserialized" ELSE "failed"
  /\ UNCHANGED <<fb, fb_fields, fb_lastLayer, fb_holesIn>>

BuilderStart ==
  /\ debug \in BOOLEAN
  /\ InitBuilder /\ InitBits /\ IdleScale /\ IdleWriter /\ IdleReader

BuilderOnly == UNCHANGED <<debug, fb_diff, bitVars, scaleVars, writerVars, readerVars>>

NextBuilder ==
  \/ \E t \in {1, 200} : CallAddType(t) /\ BuilderOnly
  \/ \E ts \in LongTypeLists : CallAddTypes(ts) /\ BuilderOnly
  \/ \E layer \in LayerArgs : CallAddLayer(layer) /\ BuilderOnly
  \/ \E name \in Names : CallAddName(name) /\ BuilderOnly
  \/ \E p \in Centers : CallSetCenter(p) /\ BuilderOnly
  \/ \E path \in GeometryPaths : \E i \in 1..Len(path) :
       CallAddPoint(path[i]) /\ BuilderOnly
  \/ CallSetLinear /\ BuilderOnly
  \/ \E holes \in HoleLists : CallSetAreaAddHoles(holes) /\ BuilderOnly
  \/ CallSerialize /\ BuilderOnly
  \/ CallDeserialize /\ BuilderOnly

SpecBuilder == BuilderStart /\ [][NextBuilder]_vars

\* C1 (as claimed): for every builder that passes CheckValid, Serialize
\* followed by Deserialize of the bytes into a fresh builder gives a builder
\* equal to it under operator== (so the debug self-check of Serialize, which
\* is that comparison, never fails either).
C1_Stage1RoundTrip ==
  /\ fb_failed # "ASSERT(fb == *this)"
  /\ fb_phase = "deserialized" => BuilderEquals(fb_copy, fb)

\* The fields of a tag among those written, in order.
FieldsOf(fields, tag) == SelectSeq(fields, LAMBDA x : x.field = tag)

\* C6: the stored layer is the argument of the last AddLayer call clamped to
\* [-10, 10] (0 if there was none); the header has HAS_LAYER exactly when the
\* stored layer is not 0, and SerializeBase writes the layer var_int exactly
\* when that bit is set (and a reader of the bytes gets the stored layer).
C6_LayerClamp ==
  /\ fb.m_Layer = Min(10, Max(-10, fb_lastLayer))
  /\ fb.m_Layer \in -10..10
  /\ HasFlag(GetHeader(fb), HEADER_HAS_LAYER) <=> (fb.m_Layer # 0)
  /\ fb_fields # <<>> =>
       /\ HasFlag(fb_fields[1].bytes[1], HEADER_HAS_LAYER) <=> (fb.m_Layer # 0)
       /\ \A layers \in {FieldsOf(fb_fields, "layer")} :
            /\ Len(layers) =
                 (IF HasFlag(fb_fields[1].bytes[1], HEADER_HAS_LAYER) THEN 1 ELSE 0)
            /\ \A i \in 1..Len(layers) :
                 ZigZagDecode(ReadVarUint(layers[i].bytes, 1).value) = fb.m_Layer
       /\ \A f \in {BaseParseAll(BaseDeserialize(FreshReader, FieldBytes(fb_fields),
                                                  <<0, 0>>))} :
            f.failed = NoFailure /\ f.m_Layer = fb.m_Layer

\* C6 witness: AddLayer(11) stored 10, and Serialize wrote the layer field.
C6_Witness ==
  /\ fb_lastLayer = 11 /\ fb.m_Layer = 10
  /\ fb_phase = "serialized"
  /\ Len(FieldsOf(fb_fields, "layer")) = 1

\* C7: after SetAreaAddHoles(holes) the builder stores exactly the input holes
\* whose first vertex the region of the outer geometry (as it was at the call)
\* contains, in input order, whatever it stored before; Serialize writes the
\* number of stored holes and then exactly those holes.
C7_HoleFilter ==
  /\ fb_holesIn.called =>
       fb.m_Holes = SelectSeq(fb_holesIn.holes,
                              LAMBDA h : RegionContains(fb_holesIn.ring, h[1]))
  /\ (fb_fields # <<>> /\ fb.m_bArea) =>
       \A counts \in {FieldsOf(fb_fields, "holeCount")},
          holes \in {FieldsOf(fb_fields, "hole")} :
           /\ Len(counts) = 1
           /\ ReadVarUint(counts[1].bytes, 1).value = Len(fb.m_Holes)
           /\ Len(holes) = Len(fb.m_Holes)
           /\ \A i \in 1..Len(holes) :
                is_equal_points(LoadOuterPath(holes[i].bytes, 1, <<0, 0>>, <<>>).points,
                                fb.m_Holes[i])
           /\ \A i \in 1..Len(fb_fields) :
                fb_fields[i].field = "hole" =>
                  fb_fields[i - 1].field \in {"hole", "holeCount"}
  /\ (fb_fields # <<>> /\ ~fb.m_bArea) =>
       FieldsOf(fb_fields, "holeCount") = <<>> /\ FieldsOf(fb_fields, "hole") = <<>>

\* C7 witness: of three holes given, the second starts outside the ring and
\* was dropped; Serialize wrote the count 2 and the two holes kept.
C7_Witness ==
  /\ fb_phase = "serialized"
  /\ fb_holesIn.holes = <<HoleIn, HoleOut, HoleIn2>>
  /\ fb.m_Holes = <<HoleIn, HoleIn2>>
  /\ FieldsOf(fb_fields, "holeCount") = <<Field("holeCount", <<2>>)>>
  /\ Len(FieldsOf(fb_fields, "hole")) = 2

(***************************************************************************)
(* The Stage-2 writer specification: the simplifier fills a                *)
(* buffers_holder_t for a builder, scale by scale from the highest scale   *)
(* index to the lowest (feature.cpp:436, 448), then PreSerialize and       *)
(* Serialize run.                                                          *)
(***************************************************************************)
\* The inputs: builders made with the FeatureBuilder1 calls, inline
\* geometries, and the container offset of the geometry of a scale.
Ring == << <<0, 0>>, <<4, 0>>, <<0, 4>>, <<0, 0>> >>

\* AddPoint for every point of a path, in order
RECURSIVE AddPoints(_, _)
AddPoints(b, path) ==
  IF path = <<>> THEN b ELSE AddPoints(AddPoint(b, Head(path)), Tail(path))

LineBuilder == SetLinear(AddPoint(AddPoint(AddType(FreshBuilder, 200), <<-4, 4>>), <<2, 2>>))

AreaBuilder ==
  SetAreaAddHoles(AddPoints(AddType(FreshBuilder, 1), Ring), <<>>)

Builders2 ==
  {LineBuilder, AreaBuilder, SetLinear(AreaBuilder), SetCenter(LineBuilder, <<2, -2>>)}

\* inline vertex i: distinct cells, so that a decoded vertex tells its index
InnerPoint(i) == <<CoordU2D(i % 5), CoordU2D((i \div 5) % 5)>>

InnerPath(n) == [i \in 1..n |-> InnerPoint(i - 1)]

InnerPtsChoices == {<<>>, InnerPath(2), InnerPath(5)}

InnerTrgChoices == {<<>>, InnerPath(3), InnerPath(4)}

SimpMaskChoices == {27}

GeometryOffset(i) == 300 * (i + 1) - 250

TrianglesOffset(i) == 70 * (ScalesCount - i)

NothingSupplied == [i \in 0..(ScalesCount - 1) |-> kInvalidOffset]

InitWriter ==
  /\ w2_fb \in Builders2
  /\ \E pts \in InnerPtsChoices, trg \in InnerTrgChoices, simp \in SimpMaskChoices :
       w2_data = [EmptyHolder EXCEPT !.m_innerPts = pts, !.m_innerTrg = trg,
                                     !.m_ptsSimpMask = IF Len(pts) > 2 THEN simp ELSE 0]
  /\ w2_base = <<1, 2>>
  /\ w2_ptsScale = ScalesCount - 1
  /\ w2_trgScale = ScalesCount - 1
  /\ w2_supplied = [pts |-> NothingSupplied, trg |-> NothingSupplied]
  /\ w2_phase = "simplify"
  /\ w2_fields = <<>>
  /\ w2_failed = NoFailure

\* The simplifier at scale index w2_ptsScale of a line: with outer = TRUE it
\* stores the geometry of the scale in the container and pushes its offset.
SimplifyPoints(outer) ==
  /\ w2_phase = "simplify"
  /\ w2_fb.m_bLinear
  /\ w2_ptsScale >= 0
  /\ w2_ptsScale' = w2_ptsScale - 1
  /\ IF outer
       THEN /\ w2_data' = [w2_data EXCEPT
                             !.m_ptsMask = BitOr(@, Shl(1, w2_ptsScale)),
                             !.m_ptsOffset = Append(@, GeometryOffset(w2_ptsScale))]
            /\ w2_supplied' = [w2_supplied EXCEPT
                                 !.pts[w2_ptsScale] = GeometryOffset(w2_ptsScale)]
       ELSE UNCHANGED <<w2_data, w2_supplied>>
  /\ UNCHANGED <<w2_fb, w2_base, w2_trgScale, w2_phase, w2_fields, w2_failed>>

\* The same for the triangles of an area.
SimplifyTriangles(outer) ==
  /\ w2_phase = "simplify"
  /\ w2_fb.m_bArea
  /\ w2_trgScale >= 0
  /\ w2_trgScale' = w2_trgScale - 1
  /\ IF outer
       THEN /\ w2_data' = [w2_data EXCEPT
                             !.m_trgMask = BitOr(@, Shl(1, w2_trgScale)),
                             !.m_trgOffset = Append(@, TrianglesOffset(w2_trgScale))]
            /\ w2_supplied' = [w2_supplied EXCEPT
                                 !.trg[w2_trgScale] = TrianglesOffset(w2_trgScale)]
       ELSE UNCHANGED <<w2_data, w2_supplied>>
  /\ UNCHANGED <<w2_fb, w2_base, w2_ptsScale, w2_phase, w2_fields, w2_failed>>

\* fb.PreSerialize(holder.m_buffer), once every scale is handled
CallPreSerialize ==
  /\ w2_phase = "simplify"
  /\ w2_fb.m_bLinear => w2_ptsScale < 0
  /\ w2_fb.m_bArea => w2_trgScale < 0
  /\ \E r \in {PreSerialize(w2_fb, w2_data)} :
         /\ w2_fb' = r.fb
         /\ w2_phase' = IF r.result THEN "ready" ELSE "skipped"
  /\ UNCHANGED <<w2_data, w2_base, w2_ptsScale, w2_trgScale, w2_supplied,
                 w2_fields, w2_failed>>

\* fb.Serialize(holder.m_buffer, base), called when PreSerialize returned true
CallSerialize2 ==
  /\ w2_phase = "ready"
  /\ \E r \in {Serialize2(w2_fb, w2_data, w2_base)} :
         IF r.failed # NoFailure
           THEN /\ w2_phase' = "failed"
                /\ w2_failed' = r.failed
                /\ UNCHANGED <<w2_data, w2_fields>>
           ELSE /\ w2_phase' = "serialized"
                /\ w2_fields' = r.fields
                /\ w2_data' = r.data
                /\ UNCHANGED w2_failed
  /\ UNCHANGED <<w2_fb, w2_base, w2_ptsScale, w2_trgScale, w2_supplied>>

WriterStart ==
  /\ debug \in BOOLEAN
  /\ InitWriter /\ InitBits /\ IdleScale /\ InitBuilder /\ IdleReader

WriterOnly == UNCHANGED <<debug, bitVars, scaleVars, builderVars, readerVars>>

NextWriter ==
  \/ \E outer \in BOOLEAN : SimplifyPoints(outer) /\ WriterOnly
  \/ \E outer \in BOOLEAN : SimplifyTriangles(outer) /\ WriterOnly
  \/ CallPreSerialize /\ WriterOnly
  \/ CallSerialize2 /\ WriterOnly

SpecWriter2 == WriterStart /\ [][NextWriter]_vars

\* The scale indices the simplifier supplied an offset for.
SuppliedScales(sup) == {i \in 0..(ScalesCount - 1) : sup[i] # kInvalidOffset}

\* A higher scale index is a higher zoom breakpoint of the header, that is
\* more detail: the highest supplied index is the highest-detail scale.
HighestDetail(sup) == SetMax(SuppliedScales(sup))

LowestDetail(sup) == SetMin(SuppliedScales(sup))

\* Serialize wrote an offsets array of the kind ("ptsOffsets", "trgOffsets"):
\* the bytes are the var_uints of the holder's vector as the reversal left it.
OffsetsWritten(tag, v) ==
  /\ w2_phase = "serialized"
  /\ FieldsOf(w2_fields, tag) # <<>>
  /\ FieldsOf(w2_fields, tag)[1].bytes = WriteVarUintArray(v)
  /\ v # <<>>

PtsWritten == OffsetsWritten("ptsOffsets", w2_data.m_ptsOffset)

TrgWritten == OffsetsWritten("trgOffsets", w2_data.m_trgOffset)

\* C10 (as claimed): the offsets array written after the reversal has the
\* offset of the highest-detail scale at index 0 and that of the
\* lowest-detail scale at index k-1.
C10_AsClaimed ==
  /\ PtsWritten =>
       LET w == w2_data.m_ptsOffset
       IN  /\ w[1] = w2_supplied.pts[HighestDetail(w2_supplied.pts)]
           /\ w[Len(w)] = w2_supplied.pts[LowestDetail(w2_supplied.pts)]
  /\ TrgWritten =>
       LET w == w2_data.m_trgOffset
       IN  /\ w[1] = w2_supplied.trg[HighestDetail(w2_supplied.trg)]
           /\ w[Len(w)] = w2_supplied.trg[LowestDetail(w2_supplied.trg)]

\* The offsets of the scales supplied, by ascending scale index.
RECURSIVE AscendingOffsets(_, _)
AscendingOffsets(sup, i) ==
  IF i >= ScalesCount THEN <<>>
  ELSE (IF sup[i] # kInvalidOffset THEN <<sup[i]>> ELSE <<>>)
         \o AscendingOffsets(sup, i + 1)

\* C10 (amended): the offsets array written after the reversal is in
\* ascending scale order: index 0 holds the offset of the lowest scale index
\* supplied (the lowest-detail scale) and index k-1 that of the highest scale
\* index supplied (the highest-detail scale).
C10_AscendingScaleOrder ==
  /\ PtsWritten =>
       LET w == w2_data.m_ptsOffset
       IN  /\ w = AscendingOffsets(w2_supplied.pts, 0)
           /\ w[1] = w2_supplied.pts[LowestDetail(w2_supplied.pts)]
           /\ w[Len(w)] = w2_supplied.pts[HighestDetail(w2_supplied.pts)]
  /\ TrgWritten =>
       LET w == w2_data.m_trgOffset
       IN  /\ w = AscendingOffsets(w2_supplied.trg, 0)
           /\ w[1] = w2_supplied.trg[LowestDetail(w2_supplied.trg)]
           /\ w[Len(w)] = w2_supplied.trg[HighestDetail(w2_supplied.trg)]

\* C10 witness: offsets were supplied for the scale indices 3 and 1 of a line
\* with outer geometry, and Serialize wrote the one of scale 1 first.
C10_Witness ==
  /\ PtsWritten
  /\ SuppliedScales(w2_supplied.pts) = {1, 3}
  /\ w2_data.m_ptsOffset = <<GeometryOffset(1), GeometryOffset(3)>>

(***************************************************************************)
(* FeatureType: the Stage-2 reader (feature.cpp:576-947)                   *)
(***************************************************************************)
\* FeatureType::Deserialize(src)
\* Deserialize leaving the flags of the two geometry stages as they are.
FeatureDeserializeKeepsGeometryFlags(f, src) ==
  BaseDeserialize(
    [f EXCEPT !.m_cont = src.cont, !.m_header = src.header,
              !.m_Points = <<>>, !.m_Triangles = <<>>,
              !.m_bHeader2Parsed = FALSE,
              !.m_ptsSimpMask = Word32Zero,
              !.m_InnerStats = ZeroStats],
    src.data, src.base)

FeatureDeserialize(f, src) ==
  BaseDeserialize(
    [f EXCEPT !.m_cont = src.cont, !.m_header = src.header,
              !.m_Points = <<>>, !.m_Triangles = <<>>,
              !.m_bHeader2Parsed = FALSE, !.m_bPointsParsed = FALSE,
              !.m_bTrianglesParsed = FALSE,
              !.m_ptsSimpMask = Word32Zero,
              !.m_InnerStats = ZeroStats],
    src.data, src.base)

\* The read_source_t after Deserialize(src) of reader f: m_Data.swap(data)
\* leaves in src.m_data the buffer the reader held before the call.
SwappedSource(f, src) == [src EXCEPT !.data = f.m_Data]

\* The read_source_t with the record of the feature read into src.m_data, as
\* the caller fills it before it hands src to a reader.
Refilled(src) == [src EXCEPT !.data = src.record]

\* The sources of srcs as the constructor FeatureType(src) leaves them.
Constructed(srcs) == {SwappedSource(FreshReader, src) : src \in srcs}

\* word += (v << (8 * i)) in 32 bits: the carry runs up from byte i and what
\* leaves the fourth byte is lost.
RECURSIVE AddAt(_, _, _)
AddAt(word, i, v) ==
  IF i > 3 \/ v = 0 THEN word
  ELSE LET sum == word[i + 1] + v
       IN  AddAt([word EXCEPT ![i + 1] = sum % 256], i + 1, sum \div 256)

\* The loop of ParseHeader2 over the count bytes of the simplification mask
\* at position pos: m_ptsSimpMask += (mask << (i << 3)).
RECURSIVE AddMaskBytes(_, _, _, _, _)
AddMaskBytes(word, bytes, pos, i, count) ==
  IF i >= count THEN word
  ELSE AddMaskBytes(AddAt(word, i, bytes[pos + i]), bytes, pos, i + 1, count)

\* What a right shift of a uint32_t by 32 or more yields is not defined: the
\* build either takes the shift count modulo 32 or yields 0.
ShiftOutcomes == {"wrap", "zero"}

\* (word >> (2 * k)) & 0x3
WordTag(word, k, shift) ==
  LET n == IF 2 * k < 32 THEN 2 * k ELSE (2 * k) % 32
  IN  IF 2 * k >= 32 /\ shift = "zero" THEN 0
      ELSE BitAnd(Shr(word[(n \div 8) + 1], n % 8), 3)

\* The visibility test of the filter with the comparison the other way round.
TagVisibleReversed(tag, scaleIndex) == tag >= scaleIndex

\* The visibility test of the filter with a strict comparison.
TagVisibleStrict(tag, scaleIndex) == tag < scaleIndex

\* The visibility test of the filter (feature.cpp:865)
TagVisible(tag, scaleIndex) == tag <= scaleIndex

\* The filter loop of ParseGeometry over the intermediate points i (0-based)
\* of points.  scaleIndex is a uint32_t: the -1 of GetScaleIndex is its
\* largest value, which no tag exceeds.
RECURSIVE FilterLoop(_, _, _, _, _, _)
FilterLoop(points, mask, scaleIndex, shift, i, acc) ==
  IF i >= Len(points) - 1 THEN acc
  ELSE FilterLoop(points, mask, scaleIndex, shift, i + 1,
         IF scaleIndex = -1 \/ TagVisible(WordTag(mask, i - 1, shift), scaleIndex)
           THEN Append(acc, points[i + 1]) ELSE acc)

FilterInner(points, mask, scaleIndex, shift) ==
  Append(FilterLoop(points, mask, scaleIndex, shift, 1, <<points[1]>>),
         points[Len(points)])

\* An indeterminate entry of an offsets table read as the value stale.
Resolve(offsets, stale) ==
  [i \in 1..Len(offsets) |-> IF offsets[i] = Indeterminate THEN stale ELSE offsets[i]]

\* FeatureType::ReadOffsets(src, mask, offsets): the loop from index on.
RECURSIVE ReadOffsetsLoop(_, _, _, _, _)
ReadOffsetsLoop(bytes, pos, mask, index, offsets) ==
  IF mask = 0 THEN [failed |-> NoFailure, offsets |-> offsets, pos |-> pos]
  ELSE IF index >= ScalesCount
    THEN [failed |-> "ASSERT_LESS(index, GetScalesCount())", offsets |-> offsets, pos |-> pos]
  ELSE IF mask % 2 = 1
    THEN LET r == ReadVarUint(bytes, pos)
         IN  IF ~r.ok THEN [failed |-> ReadPastEnd, offsets |-> offsets, pos |-> r.pos]
             ELSE ReadOffsetsLoop(bytes, r.pos, mask \div 2, index + 1,
                                  [offsets EXCEPT ![index + 1] = r.value])
  ELSE ReadOffsetsLoop(bytes, pos, mask \div 2, index + 1,
                       [offsets EXCEPT ![index + 1] = kInvalidOffset])

ReadOffsets(bytes, pos, mask, offsets) ==
  IF debug /\ ~(mask > 0)
    THEN [failed |-> "ASSERT_GREATER(mask, 0)", offsets |-> offsets, pos |-> pos]
    ELSE ReadOffsetsLoop(bytes, pos, mask, 0, offsets)

\* bitSource.Read(count) on st = [v, ptr, pos, past]; past: the byte read lies
\* beyond the end of the buffer.
BitRead(st, bytes, count) ==
  IF st.past \/ st.ptr > Len(bytes) THEN [st EXCEPT !.past = TRUE, !.v = 0]
  ELSE Local(BitSourceRead(bytes, st.ptr, st.pos, count), LAMBDA r :
         [v |-> r.v, ptr |-> r.ptr, pos |-> r.pos, past |-> FALSE])

\* The bit fields ParseHeader2 reads (feature.cpp:751-770) and the position
\* RoundPtr leaves the byte source at.
Header2Fields(f) ==
  Local(HasFlag(Header(f), HEADER_IS_LINE), LAMBDA line :
  Local(HasFlag(Header(f), HEADER_IS_AREA), LAMBDA area :
  Local([v |-> 0, ptr |-> f.m_Header2Offset + 1, pos |-> 0, past |-> FALSE], LAMBDA s0 :
  Local(IF line THEN BitRead(s0, f.m_Data, 4) ELSE s0, LAMBDA r1 :
  Local(IF line /\ r1.v = 0 THEN BitRead(r1, f.m_Data, 4) ELSE [r1 EXCEPT !.v = 0],
        LAMBDA r2 :
  Local(IF area THEN BitRead(r2, f.m_Data, 4) ELSE [r2 EXCEPT !.v = 0], LAMBDA r3 :
  Local(IF area /\ r3.v = 0 THEN BitRead(r3, f.m_Data, 4) ELSE [r3 EXCEPT !.v = 0],
        LAMBDA r4 :
    [ptsCount |-> r1.v, ptsMask |-> r2.v, trgCount |-> r3.v, trgMask |-> r4.v,
     next |-> IF r4.pos > 0 THEN r4.ptr + 1 ELSE r4.ptr,
     past |-> r4.past])))))))

\* serial::LoadInnerPath(ptr, count, base, points): count points appended to
\* points, each the delta against the one before it.
LoadInnerPath(bytes, pos, count, base, points) ==
  LoadPathPoints(bytes, pos, count, base, points)

\* serial::LoadInnerTriangles(ptr, count, base, points): the same for a strip
LoadInnerTriangles(bytes, pos, count, base, points) ==
  LoadPathPoints(bytes, pos, count, base, points)

\* The loop that turns the strip points into triangles (feature.cpp:810-815),
\* i 0-based from 2.
RECURSIVE StripTriangles(_, _, _)
StripTriangles(points, i, acc) ==
  IF i >= Len(points) THEN acc
  ELSE StripTriangles(points, i + 1,
                      acc \o <<points[i - 1], points[i], points[i + 1]>>)

Stopped(f, what) == [f |-> [f EXCEPT !.failed = what], pos |-> 0]

\* The line part of ParseHeader2 (feature.cpp:774-794): the reader after it
\* and the position of the byte source.
Header2Line(f, b) ==
  IF b.ptsCount > 0
    THEN Local((b.ptsCount - 2 + 3) \div 4, LAMBDA count :
         Local(b.next + count, LAMBDA maskEnd :
         Local(LoadInnerPath(f.m_Data, maskEnd, b.ptsCount, f.m_base, f.m_Points),
               LAMBDA path :
           IF debug /\ ~(count < 4) THEN Stopped(f, "ASSERT_LESS(count, 4)")
           ELSE IF maskEnd - 1 > Len(f.m_Data) \/ ~path.ok THEN Stopped(f, ReadPastEnd)
           ELSE [f   |-> [f EXCEPT
                            !.m_ptsSimpMask =
                               AddMaskBytes(@, f.m_Data, b.next, 0, count),
                            !.m_Points = path.points,
                            !.m_InnerStats.m_Points = path.pos - maskEnd],
                 pos |-> path.pos])))
    ELSE Local(ReadOffsets(f.m_Data, b.next, b.ptsMask, f.m_ptsOffsets), LAMBDA offs :
           IF offs.failed # NoFailure THEN Stopped(f, offs.failed)
           ELSE [f |-> [f EXCEPT !.m_ptsOffsets = offs.offsets], pos |-> offs.pos])

\* The area part of ParseHeader2 (feature.cpp:796-820), from position pos.
Header2Area(f, b, pos) ==
  IF b.trgCount > 0
    THEN Local(LoadInnerTriangles(f.m_Data, pos, U8(b.trgCount + 2), f.m_base, <<>>),
               LAMBDA strip :
           IF ~strip.ok THEN Stopped(f, ReadPastEnd)
           ELSE [f   |-> [f EXCEPT
                            !.m_Triangles = StripTriangles(strip.points, 2, @),
                            !.m_InnerStats.m_Strips = strip.pos - pos],
                 pos |-> strip.pos])
    ELSE Local(ReadOffsets(f.m_Data, pos, b.trgMask, f.m_trgOffsets), LAMBDA offs :
           IF offs.failed # NoFailure THEN Stopped(f, offs.failed)
           ELSE [f |-> [f EXCEPT !.m_trgOffsets = offs.offsets], pos |-> offs.pos])

\* The body of ParseHeader2 after its lazy call of ParseCommon.  The ASSERT
\* on ptsCount comes right behind the read of ptsCount (a count read past the
\* end is 0 here, so the ASSERT stops only a count that was read), before
\* the fields of the area are read.
ParseHeader2Body(f) ==
  Local(HasFlag(Header(f), HEADER_IS_LINE), LAMBDA line :
  Local(HasFlag(Header(f), HEADER_IS_AREA), LAMBDA area :
  Local(Header2Fields(f), LAMBDA b :
    IF debug /\ line /\ b.ptsCount # 0 /\ ~(b.ptsCount > 1)
      THEN [f EXCEPT !.failed = "ASSERT_GREATER(ptsCount, 1)"]
    ELSE IF b.past THEN [f EXCEPT !.failed = ReadPastEnd]
    ELSE
      Local(IF line THEN Header2Line(f, b) ELSE [f |-> f, pos |-> b.next], LAMBDA l :
        IF l.f.failed # NoFailure THEN l.f
        ELSE
          Local(IF area THEN Header2Area(l.f, b, l.pos) ELSE l, LAMBDA a :
            IF a.f.failed # NoFailure THEN a.f
            ELSE [a.f EXCEPT !.m_bHeader2Parsed = TRUE,
                             !.m_InnerStats.m_Size = a.pos - 1])))))

\* FeatureType::ParseHeader2
ParseHeader2(f) ==
  AssertThen(f, ~f.m_bHeader2Parsed, "ASSERT(!m_bHeader2Parsed)",
    Local(IF ~f.m_bCommonParsed THEN ParseCommon(f) ELSE f, LAMBDA g :
      IF g.failed # NoFailure THEN g ELSE ParseHeader2Body(g)))

\* A read of the container stream of a scale index: src.Skip(offset), then
\* serial::LoadOuterPath / LoadOuterTriangles(src, base, points).  The stream
\* holds a geometry at stream.offset only.
StreamFailure == "container read at an offset no geometry starts at"

ReadStream(stream, offset, base, points) ==
  IF stream.offset = kInvalidOffset \/ offset # stream.offset
    THEN [ok |-> FALSE, points |-> points, size |-> 0]
    ELSE Local(LoadOuterPath(SaveOuterPath(stream.points, base), 1, base, points),
               LAMBDA r : [ok |-> r.ok, points |-> r.points, size |-> r.pos - 1])

\* The body of ParseGeometry after its lazy call of ParseHeader2: the reader
\* after it and the size returned.  env: what the build makes of the
\* indeterminate entries of m_ptsOffsets and of an over-wide shift.
\* A stage stopped by the failure what, and the size it returns.
Fail(f, what) == [f |-> [f EXCEPT !.failed = what], sz |-> 0]

\* The outer branch of ParseGeometry with a missing geometry taken for a
\* fatal error.
OuterGeometryMissingIsFatal(f, scale, offs) ==
  Local(GetScaleIndexOffsets(f.m_header, scale, offs), LAMBDA ind :
    IF ind.aborted \/ ind.value = -1
      THEN Fail(f, "CHECK(false, Feature should have any geometry)")
    ELSE Local(ReadStream(f.m_cont.geometry[ind.value + 1], offs[ind.value + 1],
                          f.m_base, f.m_Points),
               LAMBDA rs :
           IF ~rs.ok THEN Fail(f, StreamFailure)
           ELSE [f  |-> [f EXCEPT !.m_Points = rs.points,
                                  !.m_LimitRect = CalcRect(rs.points, @),
                                  !.m_bPointsParsed = TRUE],
                 sz |-> rs.size]))

\* The outer branch of ParseGeometry: the points of the scale read from the
\* geometry container.
OuterGeometry(f, scale, offs) ==
  Local(GetScaleIndexOffsets(f.m_header, scale, offs), LAMBDA ind :
    IF ind.aborted THEN Fail(f, "CHECK(false, Feature should have any geometry)")
    ELSE IF ind.value = -1
      THEN [f  |-> [f EXCEPT !.m_LimitRect = CalcRect(f.m_Points, @),
                             !.m_bPointsParsed = TRUE],
            sz |-> 0]
    ELSE Local(ReadStream(f.m_cont.geometry[ind.value + 1], offs[ind.value + 1],
                          f.m_base, f.m_Points),
               LAMBDA rs :
           IF ~rs.ok THEN Fail(f, StreamFailure)
           ELSE [f  |-> [f EXCEPT !.m_Points = rs.points,
                                  !.m_LimitRect = CalcRect(rs.points, @),
                                  !.m_bPointsParsed = TRUE],
                 sz |-> rs.size]))

\* The inline branch of ParseGeometry: the filter over the points ParseHeader2
\* stored.
InnerGeometry(f, scaleIndex, shift) ==
  IF debug /\ ~(scaleIndex # -1 /\ scaleIndex < Len(f.m_header))
    THEN Fail(f, "ASSERT_LESS(scaleIndex, GetScalesCount())")
    ELSE Local(FilterInner(f.m_Points, f.m_ptsSimpMask, scaleIndex, shift), LAMBDA kept :
           [f  |-> [f EXCEPT !.m_Points = kept,
                             !.m_LimitRect = CalcRect(kept, @),
                             !.m_bPointsParsed = TRUE],
            sz |-> 0])

ParseGeometryBody(f, scale, env) ==
  IF ~HasFlag(Header(f), HEADER_IS_LINE)
    THEN [f |-> [f EXCEPT !.m_bPointsParsed = TRUE], sz |-> 0]
  ELSE IF f.m_Points = <<>>
    THEN OuterGeometry(f, scale, Resolve(f.m_ptsOffsets, env.stale))
  ELSE InnerGeometry(f, GetScaleIndex(f.m_header, scale), env.shift)

\* FeatureType::ParseGeometry(scale)
ParseGeometry(f, scale, env) ==
  IF debug /\ f.m_bPointsParsed
    THEN [f |-> [f EXCEPT !.failed = "ASSERT(!m_bPointsParsed)"], sz |-> 0]
    ELSE Local(IF ~f.m_bHeader2Parsed THEN ParseHeader2(f) ELSE f, LAMBDA g :
           IF g.failed # NoFailure THEN [f |-> g, sz |-> 0]
           ELSE ParseGeometryBody(g, scale, env))

\* The body of ParseTriangles after its lazy call of ParseHeader2.
\* The outer branch of ParseTriangles: the triangles of the scale read from
\* the triangles container.
OuterTriangles(f, scale, offs) ==
  Local(GetScaleIndexOffsets(f.m_header, scale, offs), LAMBDA ind :
    IF ind.aborted THEN Fail(f, "CHECK(false, Feature should have any geometry)")
    ELSE IF ind.value = -1
      THEN [f  |-> [f EXCEPT !.m_LimitRect = CalcRect(f.m_Triangles, @),
                             !.m_bTrianglesParsed = TRUE],
            sz |-> 0]
    ELSE Local(ReadStream(f.m_cont.triangles[ind.value + 1], offs[ind.value + 1],
                          f.m_base, f.m_Triangles),
               LAMBDA rs :
           IF ~rs.ok THEN Fail(f, StreamFailure)
           ELSE [f  |-> [f EXCEPT !.m_Triangles = rs.points,
                                  !.m_LimitRect = CalcRect(rs.points, @),
                                  !.m_bTrianglesParsed = TRUE],
                 sz |-> rs.size]))

ParseTrianglesBody(f, scale, env) ==
  IF ~HasFlag(Header(f), HEADER_IS_AREA)
    THEN [f |-> [f EXCEPT !.m_bTrianglesParsed = TRUE], sz |-> 0]
  ELSE IF f.m_Triangles = <<>>
    THEN OuterTriangles(f, scale, Resolve(f.m_trgOffsets, env.stale))
  ELSE [f  |-> [f EXCEPT !.m_LimitRect = CalcRect(f.m_Triangles, @),
                         !.m_bTrianglesParsed = TRUE],
        sz |-> 0]

\* FeatureType::ParseTriangles(scale)
ParseTriangles(f, scale, env) ==
  IF debug /\ f.m_bTrianglesParsed
    THEN [f |-> [f EXCEPT !.failed = "ASSERT(!m_bTrianglesParsed)"], sz |-> 0]
    ELSE Local(IF ~f.m_bHeader2Parsed THEN ParseHeader2(f) ELSE f, LAMBDA g :
           IF g.failed # NoFailure THEN [f |-> g, sz |-> 0]
           ELSE ParseTrianglesBody(g, scale, env))

\* ParseAll calling both geometry stages whatever the parsed flags say.
ParseAllUnguarded(f, scale, env) ==
  Local(ParseGeometry(f, scale, env).f, LAMBDA g :
    IF g.failed # NoFailure THEN g ELSE ParseTriangles(g, scale, env).f)

\* FeatureType::ParseAll(scale)
ParseAll(f, scale, env) ==
  Local(IF ~f.m_bPointsParsed THEN ParseGeometry(f, scale, env).f ELSE f, LAMBDA g :
    IF g.failed # NoFailure THEN g
    ELSE IF ~g.m_bTrianglesParsed THEN ParseTriangles(g, scale, env).f
    ELSE g)

(***************************************************************************)
(* The reader specification: a FeatureType is constructed on a              *)
(* read_source_t holding a feature that FeatureBuilder2 wrote, and the     *)
(* caller calls its parse stages, ParseAll and Deserialize in any order.   *)
(***************************************************************************)
\* the calls made on the reader between two Deserialize calls
MaxStageCalls == 2

\* m_header: the scale breakpoints GetScale(0..3), and the scales asked for
ReaderScales == <<0, 1, 3, 4>>

Scales == -1..MaxScale

ReaderBase == <<1, 2>>

StaleValues == {kInvalidOffset, SomeOffset}

\* A geometry stage called on reader f reads an offsets table entry that
\* ReadOffsets has not stored: after the header 2 the stage parses first, the
\* feature is a line without inline points or an area without inline
\* triangles and the table of that branch has such an entry.
ReadsStale(f) ==
  \E h \in {IF ~f.m_bHeader2Parsed THEN ParseHeader2(f) ELSE f} :
    /\ h.failed = NoFailure
    /\ \/ /\ HasFlag(Header(h), HEADER_IS_LINE) /\ h.m_Points = <<>>
          /\ \E i \in DOMAIN h.m_ptsOffsets : h.m_ptsOffsets[i] = Indeterminate
       \/ /\ HasFlag(Header(h), HEADER_IS_AREA) /\ h.m_Triangles = <<>>
          /\ \E i \in DOMAIN h.m_trgOffsets : h.m_trgOffsets[i] = Indeterminate

\* The outcomes the build can produce for a call on reader f: an entry of an
\* offsets table is indeterminate only where the call reads one that was never
\* stored, and a shift is over-wide only for a point beyond the 17th.
Environments(f) ==
  [stale : IF ReadsStale(f) THEN StaleValues ELSE {kInvalidOffset},
   shift : IF Len(f.m_Points) > 17 THEN ShiftOutcomes ELSE {"wrap"}]

\* The offsets of the scales of mask as the simplifier pushes them, from the
\* highest scale index down to index i.
RECURSIVE PushedOffsets(_, _, _)
PushedOffsets(mask, OffsetOf(_), i) ==
  IF i < 0 THEN <<>>
  ELSE (IF (mask \div Pow2(i)) % 2 = 1 THEN <<OffsetOf(i)>> ELSE <<>>)
         \o PushedOffsets(mask, OffsetOf, i - 1)

\* The geometry the simplifier stores for scale index i: more points for more
\* detail.
ScaleGeometry(i) == InnerPath(i + 2)

ScaleTriangles(i) == InnerPath(3 * (i + 1))

Streams(mask, OffsetOf(_), PointsOf(_)) ==
  [k \in 1..ScalesCount |->
     IF (mask \div Pow2(k - 1)) % 2 = 1
       THEN [offset |-> OffsetOf(k - 1), points |-> PointsOf(k - 1)]
       ELSE NoStream]

\* The holder the simplifier leaves: inline points with their simplification
\* mask, an inline strip, and the outer geometry of the scales of the masks.
Holder(innerPts, simpMask, ptsMask, innerTrg, trgMask) ==
  [EmptyHolder EXCEPT
     !.m_innerPts = innerPts, !.m_ptsSimpMask = simpMask,
     !.m_ptsMask = ptsMask,
     !.m_ptsOffset = PushedOffsets(ptsMask, GeometryOffset, ScalesCount - 1),
     !.m_innerTrg = innerTrg,
     !.m_trgMask = trgMask,
     !.m_trgOffset = PushedOffsets(trgMask, TrianglesOffset, ScalesCount - 1)]

\* The read_source_t of the feature FeatureBuilder2 writes for builder b and
\* holder d: PreSerialize, then Serialize.
Source(b, d) ==
  Local(PreSerialize(b, d).fb, LAMBDA pre :
    Local(Serialize2(pre, d, ReaderBase).fields, LAMBDA fields :
      [data   |-> FieldBytes(fields),
       record |-> FieldBytes(fields),
       header |-> ReaderScales,
       base   |-> ReaderBase,
       cont   |-> [geometry  |-> Streams(d.m_ptsMask, GeometryOffset, ScaleGeometry),
                   triangles |-> Streams(d.m_trgMask, TrianglesOffset, ScaleTriangles)],
       fb     |-> pre,
       holder |-> d,
       fields |-> fields]))

\* simplification masks of inline lines of 6, 7 and 15 points
Mask6 == {228, 27, 153}

Mask7 == {484}

Mask15 == {37348379}

Sources ==
  {Source(LineBuilder, Holder(InnerPath(2), 0, 0, <<>>, 0))}
    \cup {Source(LineBuilder, Holder(InnerPath(4), m, 0, <<>>, 0)) : m \in 0..15}
    \cup {Source(LineBuilder, Holder(InnerPath(6), m, 0, <<>>, 0)) : m \in Mask6}
    \cup {Source(LineBuilder, Holder(InnerPath(7), m, 0, <<>>, 0)) : m \in Mask7}
    \cup {Source(LineBuilder, Holder(InnerPath(15), m, 0, <<>>, 0)) : m \in Mask15}
    \cup {Source(LineBuilder, Holder(<<>>, 0, m, <<>>, 0)) : m \in {10, 3}}
    \cup {Source(AreaBuilder, Holder(<<>>, 0, 0, InnerPath(n), 0)) : n \in {3, 5}}
    \cup {Source(AreaBuilder, Holder(<<>>, 0, 0, <<>>, m)) : m \in {5, 8}}
    \cup {Source(SetLinear(AreaBuilder), Holder(InnerPath(4), 9, 0, <<>>, 6)),
          Source(SetLinear(AreaBuilder), Holder(<<>>, 0, 12, InnerPath(4), 0)),
          Source(SetCenter(LineBuilder, <<2, -2>>), Holder(InnerPath(3), 2, 0, <<>>, 0)),
          Source(SetCenter(LineBuilder, <<2, -2>>), Holder(<<>>, 0, 0, <<>>, 0))}

\* FeatureType(src): the constructor deserializes
InitReader ==
  /\ rd_src \in Constructed(Sources)
  /\ rd = FeatureDeserialize(FreshReader, Refilled(rd_src))
  /\ rd_clean = TRUE
  /\ rd_kept = NothingKept
  /\ rd_calls = 0
  /\ rd_last = NoCall

\* The bookkeeping of a call that leaves the reader g; again: the stage
\* called had run before.
Returned(g, again) ==
  /\ rd' = g
  /\ rd_clean' = (rd_clean /\ ~again)
  /\ rd_calls' = rd_calls + 1
  /\ UNCHANGED rd_src

MayCall == rd.failed = NoFailure /\ rd_calls < MaxStageCalls

\* The points an undisturbed ParseGeometry(scale) leaves of an inline line
\* are remembered per scale index.
Remember(scale, g) ==
  LET s == GetScaleIndex(rd.m_header, scale)
  IN  IF /\ rd_clean /\ ~rd.m_bPointsParsed /\ g.failed = NoFailure
         /\ rd_src.holder.m_innerPts # <<>>
         /\ HasFlag(Header(rd), HEADER_IS_LINE)
         /\ s \in 0..(ScalesCount - 1)
        THEN rd_kept' = [rd_kept EXCEPT ![s] = [set |-> TRUE, points |-> g.m_Points]]
        ELSE UNCHANGED rd_kept

\* f.Deserialize(src) on the reader at hand, src handed over as the last
\* Deserialize left it or filled with the record again: the reader takes the
\* buffer of src and src is left with the buffer the reader held.
CallDeserialize2 ==
  /\ rd.failed = NoFailure
  /\ \E src \in {rd_src, Refilled(rd_src)} :
       /\ rd' = FeatureDeserialize(rd, src)
       /\ rd_src' = SwappedSource(rd, src)
  /\ rd_clean' = TRUE
  /\ rd_calls' = 0
  /\ UNCHANGED rd_kept

CallParseTypes ==
  /\ MayCall
  /\ Returned(ParseTypes(rd), rd.m_bTypesParsed)
  /\ UNCHANGED rd_kept

CallParseCommon ==
  /\ MayCall
  /\ Returned(ParseCommon(rd), rd.m_bCommonParsed)
  /\ UNCHANGED rd_kept

CallParseHeader2 ==
  /\ MayCall
  /\ Returned(ParseHeader2(rd), rd.m_bHeader2Parsed)
  /\ UNCHANGED rd_kept

CallParseGeometry(scale, env) ==
  /\ MayCall
  /\ \E g \in {ParseGeometry(rd, scale, env).f} :
         /\ Returned(g, rd.m_bPointsParsed)
         /\ Remember(scale, g)

CallParseTriangles(scale, env) ==
  /\ MayCall
  /\ Returned(ParseTriangles(rd, scale, env).f, rd.m_bTrianglesParsed)
  /\ UNCHANGED rd_kept

CallParseAll(scale, env) ==
  /\ MayCall
  /\ \E g \in {ParseAll(rd, scale, env)} :
         /\ Returned(g, FALSE)
         /\ Remember(scale, g)

ReaderStart ==
  /\ debug \in BOOLEAN
  /\ InitReader /\ InitBits /\ IdleScale /\ InitBuilder /\ IdleWriter

ReaderOnly == UNCHANGED <<debug, bitVars, scaleVars, builderVars, writerVars>>

NextReader ==
  \/ CallDeserialize2 /\ UNCHANGED rd_last /\ ReaderOnly
  \/ CallParseTypes /\ UNCHANGED rd_last /\ ReaderOnly
  \/ CallParseCommon /\ UNCHANGED rd_last /\ ReaderOnly
  \/ CallParseHeader2 /\ UNCHANGED rd_last /\ ReaderOnly
  \/ \E scale \in Scales, env \in Environments(rd) :
       CallParseGeometry(scale, env) /\ UNCHANGED rd_last /\ ReaderOnly
  \/ \E scale \in Scales, env \in Environments(rd) :
       CallParseTriangles(scale, env) /\ UNCHANGED rd_last /\ ReaderOnly
  \/ \E scale \in Scales, env \in Environments(rd) :
       CallParseAll(scale, env) /\ UNCHANGED rd_last /\ ReaderOnly

SpecReader == ReaderStart /\ [][NextReader]_vars

\* The vertices stored for the inline line of a source: the inner path as the
\* codec reads it back from the bytes written.
StoredVertices(src) ==
  LoadPathPoints(FieldsOf(src.fields, "innerPts")[1].bytes, 1,
                 Len(src.holder.m_innerPts), src.base, <<>>).points

\* The 2-bit tag of the intermediate vertex i (1..N-2) in the mask the
\* simplifier supplied.
SimpTag(mask, i) == (mask \div Pow2(2 * (i - 1))) % 4

\* The subsequence of the vertices v (vertex i is v[i + 1]) the claim
\* describes for scale index s, from vertex i on.
RECURSIVE ExpectedKept(_, _, _, _)
ExpectedKept(v, mask, s, i) ==
  IF i >= Len(v) THEN <<>>
  ELSE (IF i = 0 \/ i = Len(v) - 1 \/ SimpTag(mask, i) <= s
          THEN <<v[i + 1]>> ELSE <<>>)
       \o ExpectedKept(v, mask, s, i + 1)

Range(q) == {q[i] : i \in 1..Len(q)}

\* C4: for an inline line of N >= 2 stored vertices, the first ParseGeometry
\* after a Deserialize at scale index s in 0..ScalesCount-1 leaves in
\* m_Points exactly vertex 0, the intermediate vertices whose 2-bit tag is
\* <= s, and vertex N-1, in order and without a duplicate.
C4_InlineFilter ==
  \A s \in 0..(ScalesCount - 1) :
    rd_kept[s].set =>
      /\ Len(rd_src.holder.m_innerPts) >= 2
      /\ rd_kept[s].points =
           ExpectedKept(StoredVertices(rd_src), rd_src.holder.m_ptsSimpMask, s, 0)
      /\ Cardinality(Range(rd_kept[s].points)) = Len(rd_kept[s].points)

\* C4 witness: the line of 6 vertices with the tags 0, 1, 2, 3 was parsed at
\* scale index 1 and m_Points holds the vertices 0, 1, 2 and 5.
C4_Witness ==
  /\ rd_src.holder.m_innerPts = InnerPath(6)
  /\ rd_src.holder.m_ptsSimpMask = 228
  /\ rd_kept[1].set
  /\ rd.m_bPointsParsed /\ rd_clean
  /\ rd.m_Points = rd_kept[1].points
  /\ rd.m_Points = <<InnerPoint(0), InnerPoint(1), InnerPoint(2), InnerPoint(5)>>

\* C5: for every inline line and simplification mask, the vertices
\* ParseGeometry keeps at scale index s+1 are a superset of those it keeps
\* of the same bytes at scale index s, for 0 <= s < ScalesCount-1.
C5_Monotone ==
  \A s \in 0..(ScalesCount - 2) :
    (rd_kept[s].set /\ rd_kept[s + 1].set) =>
      Range(rd_kept[s].points) \subseteq Range(rd_kept[s + 1].points)

\* C5 witness: the same bytes were parsed at the scale indices 1 and 2, and
\* index 2 kept a vertex that index 1 dropped.
C5_Witness ==
  /\ rd_kept[1].set /\ rd_kept[2].set
  /\ Range(rd_kept[1].points) # Range(rd_kept[2].points)
  /\ Range(rd_kept[1].points) \subseteq Range(rd_kept[2].points)

(***************************************************************************)
(* The stage-order specification: the parse stages of one reader called    *)
(* one by one in any order, with the last call remembered.                 *)
(***************************************************************************)
StageSources ==
  {Source(LineBuilder, Holder(InnerPath(4), 9, 0, <<>>, 0)),
   Source(LineBuilder, Holder(InnerPath(15), 37348379, 0, <<>>, 0)),
   Source(LineBuilder, Holder(<<>>, 0, 10, <<>>, 0)),
   Source(AreaBuilder, Holder(<<>>, 0, 0, InnerPath(3), 0)),
   Source(SetLinear(AreaBuilder), Holder(InnerPath(4), 9, 0, <<>>, 6)),
   Source(SetCenter(LineBuilder, <<2, -2>>), Holder(<<>>, 0, 0, <<>>, 0))}

InitStages ==
  /\ rd_src \in Constructed(StageSources)
  /\ rd = FeatureDeserialize(FreshReader, Refilled(rd_src))
  /\ rd_clean = TRUE
  /\ rd_kept = NothingKept
  /\ rd_calls = 0
  /\ rd_last = NoCall

Last(op, scale, env) ==
  rd_last' = [op |-> op, scale |-> scale, env |-> env, pre |-> rd]

StagesStart ==
  /\ debug \in BOOLEAN
  /\ InitStages /\ InitBits /\ IdleScale /\ InitBuilder /\ IdleWriter

NextStages ==
  \/ CallDeserialize2 /\ Last("Deserialize", 0, NoEnvironment) /\ ReaderOnly
  \/ CallParseTypes /\ Last("ParseTypes", 0, NoEnvironment) /\ ReaderOnly
  \/ CallParseCommon /\ Last("ParseCommon", 0, NoEnvironment) /\ ReaderOnly
  \/ CallParseHeader2 /\ Last("ParseHeader2", 0, NoEnvironment) /\ ReaderOnly
  \/ \E scale \in Scales, env \in Environments(rd) :
       CallParseGeometry(scale, env) /\ Last("ParseGeometry", scale, env) /\ ReaderOnly
  \/ \E scale \in Scales, env \in Environments(rd) :
       CallParseTriangles(scale, env) /\ Last("ParseTriangles", scale, env) /\ ReaderOnly

SpecStages == StagesStart /\ [][NextStages]_vars

Stages == {"ParseTypes", "ParseCommon", "ParseHeader2", "ParseGeometry", "ParseTriangles"}

\* The stage has run on reader f since the last Deserialize.
RanBefore(op, f) ==
  CASE op = "ParseTypes"     -> f.m_bTypesParsed
    [] op = "ParseCommon"    -> f.m_bCommonParsed
    [] op = "ParseHeader2"   -> f.m_bHeader2Parsed
    [] op = "ParseGeometry"  -> f.m_bPointsParsed
    [] op = "ParseTriangles" -> f.m_bTrianglesParsed

\* Every stage that comes before the stage in Types, Common, Header2,
\* {Geometry, Triangles} has run on reader f.
PrerequisitesRan(op, f) ==
  CASE op = "ParseTypes"   -> TRUE
    [] op = "ParseCommon"  -> f.m_bTypesParsed
    [] op = "ParseHeader2" -> f.m_bTypesParsed /\ f.m_bCommonParsed
    [] OTHER -> f.m_bTypesParsed /\ f.m_bCommonParsed /\ f.m_bHeader2Parsed

\* The entry assertion of the stage.
OwnAssert(op) ==
  CASE op = "ParseTypes"     -> "ASSERT(!m_bTypesParsed)"
    [] op = "ParseCommon"    -> "ASSERT(!m_bCommonParsed)"
    [] op = "ParseHeader2"   -> "ASSERT(!m_bHeader2Parsed)"
    [] op = "ParseGeometry"  -> "ASSERT(!m_bPointsParsed)"
    [] op = "ParseTriangles" -> "ASSERT(!m_bTrianglesParsed)"

\* The stage called on reader f; nothing runs once the process has aborted.
RunStage(op, f, scale, env) ==
  IF f.failed # NoFailure THEN f
  ELSE CASE op = "ParseTypes"     -> ParseTypes(f)
         [] op = "ParseCommon"    -> ParseCommon(f)
         [] op = "ParseHeader2"   -> ParseHeader2(f)
         [] op = "ParseGeometry"  -> ParseGeometry(f, scale, env).f
         [] op = "ParseTriangles" -> ParseTriangles(f, scale, env).f

\* The caller running the stages before the stage itself, in order, each one
\* that has not run.
\* The stage op run on reader g unless it has run.
RunOnce(op, g) ==
  IF ~RanBefore(op, g) THEN RunStage(op, g, 0, NoEnvironment) ELSE g

WithTypes(f) == RunOnce("ParseTypes", f)
WithCommon(f) == RunOnce("ParseCommon", WithTypes(f))

WithHeader2(f) == RunOnce("ParseHeader2", WithCommon(f))

Prepared(op, f) ==
  CASE op = "ParseTypes"   -> f
    [] op = "ParseCommon"  -> WithTypes(f)
    [] op = "ParseHeader2" -> WithCommon(f)
    [] OTHER -> WithHeader2(f)

\* C2 (as claimed): in a debug build every parse stage asserts on entry that
\* it has not run since the last Deserialize and that all of its
\* prerequisite stages have run: a stage called before a prerequisite stage
\* has run aborts.
C2_PrerequisitesAsserted ==
  (debug /\ rd_last.op \in Stages) =>
    /\ RanBefore(rd_last.op, rd_last.pre) => rd.failed = OwnAssert(rd_last.op)
    /\ ~PrerequisitesRan(rd_last.op, rd_last.pre) => rd.failed # NoFailure

\* C2 (amended): in a debug build every parse stage asserts on entry that it
\* has not run since the last Deserialize, and that is all it asserts: a
\* stage called before its prerequisite stages have run runs them itself, so
\* the call leaves the reader as the calls in order would have, no "has not
\* run" assertion fails, and when it completes the stage and all of its
\* prerequisites have run.
C2_RunsPrerequisites ==
  rd_last.op \in Stages =>
    /\ (debug /\ RanBefore(rd_last.op, rd_last.pre)) =>
         rd = [rd_last.pre EXCEPT !.failed = OwnAssert(rd_last.op)]
    /\ (~RanBefore(rd_last.op, rd_last.pre)
          /\ ~PrerequisitesRan(rd_last.op, rd_last.pre)) =>
         /\ rd = RunStage(rd_last.op, Prepared(rd_last.op, rd_last.pre),
                          rd_last.scale, rd_last.env)
         /\ rd.failed \notin {OwnAssert(op) : op \in Stages}
         /\ rd.failed = NoFailure =>
              (RanBefore(rd_last.op, rd) /\ PrerequisitesRan(rd_last.op, rd))

\* C2 witness: in a debug build ParseGeometry was the first call after a
\* Deserialize; it completed, and the types, the common fields and header 2
\* are parsed.
C2_Witness ==
  /\ debug
  /\ rd_last.op = "ParseGeometry"
  /\ ~rd_last.pre.m_bTypesParsed /\ ~rd_last.pre.m_bHeader2Parsed
  /\ rd.failed = NoFailure
  /\ rd.m_bTypesParsed /\ rd.m_bCommonParsed /\ rd.m_bHeader2Parsed
  /\ rd.m_bPointsParsed
  /\ rd.m_Types = rd_src.fb.m_Types
  /\ rd.m_Points # <<>>

(***************************************************************************)
(* Writer/reader agreement on the outer offsets (SpecReader)               *)
(***************************************************************************)
\* Bit i of a 4-bit scale mask.
MaskBit(mask, i) == (mask \div Pow2(i)) % 2 = 1

\* The offsets table the claim describes for a mask: the offset supplied for
\* every scale of the mask, kInvalidOffset for every other scale.
AgreedOffsets(mask, OffsetOf(_)) ==
  [k \in 1..ScalesCount |->
     IF MaskBit(mask, k - 1) THEN OffsetOf(k - 1) ELSE kInvalidOffset]

\* ParseHeader2 has read the offsets array of the line (of the area) of the
\* source.
PtsOffsetsRead ==
  /\ rd.m_bHeader2Parsed /\ rd.failed = NoFailure
  /\ rd_src.fb.m_bLinear /\ rd_src.holder.m_innerPts = <<>>

TrgOffsetsRead ==
  /\ rd.m_bHeader2Parsed /\ rd.failed = NoFailure
  /\ rd_src.fb.m_bArea /\ rd_src.holder.m_innerTrg = <<>>

\* C11 (as claimed): after ParseHeader2 of the bytes Serialize wrote, for
\* every scale index i the offsets table holds the offset supplied for scale
\* i when bit i of the mask is set and kInvalidOffset when it is clear, and
\* the reader has consumed exactly the bytes written.
C11_OffsetsAgree ==
  /\ PtsOffsetsRead =>
       /\ rd.m_ptsOffsets = AgreedOffsets(rd_src.holder.m_ptsMask, GeometryOffset)
       /\ rd.m_InnerStats.m_Size = Len(rd.m_Data)
  /\ TrgOffsetsRead =>
       /\ rd.m_trgOffsets = AgreedOffsets(rd_src.holder.m_trgMask, TrianglesOffset)
       /\ rd.m_InnerStats.m_Size = Len(rd.m_Data)

(***************************************************************************)
(* The type-list specification: AddType calls and AssignType_SetDifference *)
(* calls on one builder, in any order.                                     *)
(***************************************************************************)
\* bound: the number of types a builder of this specification holds at most
MaxAddedTypes == 3

TypeValues == {1, 2, 200}

\* The sorted lists of types to remove, duplicates included.
RemoveLists ==
  {<<>>} \cup {<<a>> : a \in TypeValues}
         \cup {<<p[1], p[2]>> : p \in {q \in TypeValues \X TypeValues : q[1] <= q[2]}}

\* fb.AddType(t)
CallAddAnyType(t) ==
  /\ fb_phase = "build"
  /\ Len(fb.m_Types) < MaxAddedTypes
  /\ fb' = AddType(fb, t)
  /\ UNCHANGED <<fb_phase, fb_failed, fb_fields, fb_copy, fb_lastLayer, fb_holesIn,
                 fb_diff>>

\* fb.AssignType_SetDifference(remove)
CallAssignType_SetDifference(remove) ==
  /\ fb_phase = "build"
  /\ \E r \in {AssignType_SetDifference(fb, remove)} :
       /\ fb' = r.fb
       /\ fb_diff' = [called |-> TRUE, before |-> fb.m_Types, remove |-> remove,
                      after |-> r.fb.m_Types, result |-> r.result]
  /\ UNCHANGED <<fb_phase, fb_failed, fb_fields, fb_copy, fb_lastLayer, fb_holesIn>>

TypesStart ==
  /\ debug \in BOOLEAN
  /\ InitBuilder /\ InitBits /\ IdleScale /\ IdleWriter /\ IdleReader

TypesOnly == UNCHANGED <<debug, bitVars, scaleVars, writerVars, readerVars>>

NextTypes ==
  \/ \E t \in TypeValues : CallAddAnyType(t) /\ TypesOnly
  \/ \E remove \in RemoveLists : CallAssignType_SetDifference(remove) /\ TypesOnly

SpecTypes == TypesStart /\ [][NextTypes]_vars

\* The values of a sequence.
Values(q) == {q[i] : i \in 1..Len(q)}

\* C12 (as claimed): for every type list (duplicates allowed) and every
\* sorted list remove, AssignType_SetDifference(remove) leaves only types that
\* do not occur in remove, keeps every type that does not occur in remove, and
\* returns true if and only if at least one type remains.
C12_SetDifference ==
  fb_diff.called =>
    /\ Values(fb_diff.after) \cap Values(fb_diff.remove) = {}
    /\ Values(fb_diff.before) \ Values(fb_diff.remove) \subseteq Values(fb_diff.after)
    /\ fb_diff.result <=> (fb_diff.after # <<>>)

\* q is p with some elements left out: the elements of q appear in p in the
\* same relative order.
RECURSIVE IsSubsequence(_, _)
IsSubsequence(q, p) ==
  IF q = <<>> THEN TRUE
  ELSE IF p = <<>> THEN FALSE
  ELSE IF Head(q) = Head(p) THEN IsSubsequence(Tail(q), Tail(p))
  ELSE IsSubsequence(q, Tail(p))

\* C18 (as claimed): after AssignType_SetDifference the types that remain
\* appear in the same relative order in which they were added.
C18_KeepsInsertionOrder ==
  fb_diff.called => IsSubsequence(fb_diff.after, fb_diff.before)

\* C18 (amended): after AssignType_SetDifference the types that remain are
\* types that were added, in ascending order of their values, whatever the
\* order in which they were added.
C18_AscendingOrder ==
  fb_diff.called =>
    /\ Values(fb_diff.after) \subseteq Values(fb_diff.before)
    /\ \A i \in 1..Len(fb_diff.after) : \A j \in i..Len(fb_diff.after) :
         fb_diff.after[i] <= fb_diff.after[j]

\* C18 witness: 200 was added before 1, nothing was removed, and the builder
\* holds 1 before 200.
C18_Witness ==
  /\ fb_diff.called
  /\ fb_diff.before = <<200, 1>> /\ fb_diff.remove = <<>>
  /\ fb_diff.after = <<1, 200>>
  /\ fb.m_Types = <<1, 200>>

(***************************************************************************)
(* The malformed-input specification: a FeatureType on a buffer that ends  *)
(* early or whose header announces no type, its stages called in any order.*)
(***************************************************************************)
\* A read_source_t holding the bytes data and no outer geometry.
RawSource(data) ==
  [NoSource EXCEPT !.data = data, !.record = data,
                   !.header = ReaderScales, !.base = ReaderBase]

\* The source src with its buffer cut to its first n bytes.
Truncated(src, n) ==
  [src EXCEPT !.data = SubSeq(@, 1, n), !.record = SubSeq(@, 1, n)]

\* Every proper, non-empty prefix of the buffer of src.
Truncations(src) == {Truncated(src, n) : n \in 1..(Len(src.data) - 1)}

\* A named point with a layer: every optional field of ParseCommon is there.
NamedPoint ==
  AddLayer(AddName(SetCenter(AddType(FreshBuilder, 200), <<2, -2>>), <<66, 67>>), 3)

\* Features as FeatureBuilder2 writes them, cut short, and a line of one type
\* whose var_uint goes on beyond its third and last byte.
TruncatedSources ==
  Truncations(Source(LineBuilder, Holder(InnerPath(4), 9, 0, <<>>, 0)))
    \cup Truncations(Source(NamedPoint, Holder(<<>>, 0, 0, <<>>, 0)))
    \cup Truncations(Source(AreaBuilder, Holder(<<>>, 0, 0, <<>>, 5)))
    \cup {RawSource(<<HEADER_IS_LINE + 1, 200, 129>>)}

\* Buffers whose header byte has 0 in its types-count bits: a point at the
\* base, and a header alone.
ZeroTypesSources == {RawSource(<<HEADER_HAS_POINT, 0>>), RawSource(<<0>>)}

InitMalformed ==
  /\ rd_src \in Constructed(TruncatedSources \cup ZeroTypesSources)
  /\ rd = FeatureDeserialize(FreshReader, Refilled(rd_src))
  /\ rd_clean = TRUE
  /\ rd_kept = NothingKept
  /\ rd_calls = 0
  /\ rd_last = NoCall

MalformedStart ==
  /\ debug \in BOOLEAN
  /\ InitMalformed /\ InitBits /\ IdleScale /\ InitBuilder /\ IdleWriter

SpecMalformed == MalformedStart /\ [][NextReader]_vars

\* C13 (as claimed): on a buffer that ends before the data a parse stage
\* needs (the reader holds a proper prefix, not empty, of a feature), no
\* stage reads a byte beyond the end of the buffer (the stage reports the
\* truncation instead).
C13_TruncationReported ==
  (Refilled(rd_src) \in TruncatedSources /\ rd.m_Data = rd_src.record) =>
    rd.failed # ReadPastEnd

\* C14 (as claimed): on a buffer whose header byte has 0 in its types-count
\* bits ParseTypes does not complete (with an empty type list).
C14_ZeroTypesRejected ==
  (rd.m_Data # <<>> /\ GetTypesCount(rd) = 0) => ~rd.m_bTypesParsed

(***************************************************************************)
(* The query specification: ParseAll, IsEmptyGeometry, the parse stages    *)
(* and Deserialize called in any order on a reader of a feature            *)
(* FeatureBuilder2 wrote, with the last call remembered.                   *)
(***************************************************************************)
QuerySources ==
  {Source(LineBuilder, Holder(<<>>, 0, 10, <<>>, 0)),
   Source(LineBuilder, Holder(<<>>, 0, 3, <<>>, 0)),
   Source(AreaBuilder, Holder(<<>>, 0, 0, <<>>, 5)),
   Source(AreaBuilder, Holder(<<>>, 0, 0, <<>>, 8)),
   Source(LineBuilder, Holder(InnerPath(4), 9, 0, <<>>, 0)),
   Source(AreaBuilder, Holder(<<>>, 0, 0, InnerPath(3), 0)),
   Source(SetLinear(AreaBuilder), Holder(<<>>, 0, 12, InnerPath(4), 0)),
   Source(SetLinear(AreaBuilder), Holder(InnerPath(4), 9, 0, <<>>, 6)),
   Source(SetCenter(LineBuilder, <<2, -2>>), Holder(<<>>, 0, 0, <<>>, 0)),
   Source(AddLayer(AddName(LineBuilder, <<66, 67>>), 3),
          Holder(InnerPath(4), 9, 0, <<>>, 0))}

InitQueries ==
  /\ rd_src \in Constructed(QuerySources)
  /\ rd = FeatureDeserialize(FreshReader, Refilled(rd_src))
  /\ rd_clean = TRUE
  /\ rd_kept = NothingKept
  /\ rd_calls = 0
  /\ rd_last = NoCall

QueriesStart ==
  /\ debug \in BOOLEAN
  /\ InitQueries /\ InitBits /\ IdleScale /\ InitBuilder /\ IdleWriter

\* GetFeatureType(): one of the kinds whose flag the header byte carries (the
\* kinds are flags that do not exclude each other), as the flag.
GetFeatureTypes(f) ==
  {flag \in {HEADER_IS_AREA, HEADER_IS_LINE, HEADER_HAS_POINT} : HasFlag(Header(f), flag)}

\* The kinds GetFeatureType() can return to IsEmptyGeometry on reader f.  On
\* an empty buffer the call is never reached, ParseAll reads past the end
\* before it, and the kind is of no account.
ReturnedKinds(f) ==
  IF f.m_Data = <<>> THEN {HEADER_HAS_POINT} ELSE GetFeatureTypes(f)

\* FeatureType::IsEmptyGeometry(scale), GetFeatureType() returning kind: the
\* reader after it and the value returned (none when the process aborted).
IsEmptyGeometry(f, scale, env, kind) ==
  Local(ParseAll(f, scale, env), LAMBDA g :
    IF g.failed # NoFailure THEN [f |-> g, result |-> FALSE]
    ELSE IF kind = HEADER_IS_AREA THEN [f |-> g, result |-> g.m_Triangles = <<>>]
    ELSE IF kind = HEADER_IS_LINE THEN [f |-> g, result |-> g.m_Points = <<>>]
    ELSE IF debug /\ ~HasFlag(Header(g), HEADER_HAS_POINT)
      THEN [f |-> [g EXCEPT !.failed = "ASSERT(Header() & HEADER_HAS_POINT)"],
            result |-> FALSE]
    ELSE [f |-> g, result |-> FALSE])

CallIsEmptyGeometry(scale, env, kind) ==
  /\ MayCall
  /\ \E r \in {IsEmptyGeometry(rd, scale, env, kind)} :
       /\ Returned(r.f, FALSE)
       /\ rd_last' = [op |-> "IsEmptyGeometry", scale |-> scale, env |-> env,
                      pre |-> rd, kind |-> kind, result |-> r.result]
  /\ UNCHANGED rd_kept

NextQueries ==
  \/ CallDeserialize2 /\ Last("Deserialize", 0, NoEnvironment) /\ ReaderOnly
  \/ CallParseTypes /\ Last("ParseTypes", 0, NoEnvironment) /\ ReaderOnly
  \/ CallParseCommon /\ Last("ParseCommon", 0, NoEnvironment) /\ ReaderOnly
  \/ CallParseHeader2 /\ Last("ParseHeader2", 0, NoEnvironment) /\ ReaderOnly
  \/ \E scale \in Scales, env \in Environments(rd) :
       CallParseGeometry(scale, env) /\ Last("ParseGeometry", scale, env) /\ ReaderOnly
  \/ \E scale \in Scales, env \in Environments(rd) :
       CallParseTriangles(scale, env) /\ Last("ParseTriangles", scale, env) /\ ReaderOnly
  \/ \E scale \in Scales, env \in Environments(rd) :
       CallParseAll(scale, env) /\ Last("ParseAll", scale, env) /\ ReaderOnly
  \/ \E scale \in Scales, env \in Environments(rd), kind \in ReturnedKinds(rd) :
       CallIsEmptyGeometry(scale, env, kind) /\ ReaderOnly

SpecQueries == QueriesStart /\ [][NextQueries]_vars

\* The reader f with header 2 parsed, as a geometry stage called on f has it
\* when it comes to its body.
AtBody(f) == IF ~f.m_bHeader2Parsed THEN ParseHeader2(f) ELSE f

\* ParseGeometry(scale) called on reader f comes to the outer branch and
\* GetScaleIndex(scale, m_ptsOffsets) returns -1 there.
NoPointsOffset(f, scale, env) ==
  /\ ~(debug /\ f.m_bPointsParsed)
  /\ \E h \in {AtBody(f)} :
       /\ h.failed = NoFailure
       /\ HasFlag(Header(h), HEADER_IS_LINE) /\ h.m_Points = <<>>
       /\ \E ind \in {GetScaleIndexOffsets(h.m_header, scale,
                                           Resolve(h.m_ptsOffsets, env.stale))} :
            ~ind.aborted /\ ind.value = -1

\* The same for ParseTriangles(scale) and m_trgOffsets.
NoTrianglesOffset(f, scale, env) ==
  /\ ~(debug /\ f.m_bTrianglesParsed)
  /\ \E h \in {AtBody(f)} :
       /\ h.failed = NoFailure
       /\ HasFlag(Header(h), HEADER_IS_AREA) /\ h.m_Triangles = <<>>
       /\ \E ind \in {GetScaleIndexOffsets(h.m_header, scale,
                                           Resolve(h.m_trgOffsets, env.stale))} :
            ~ind.aborted /\ ind.value = -1

\* Reader f holds a feature that is a line and no area, or an area and no
\* line.
OneGeometry(f) ==
  /\ f.m_Data # <<>>
  /\ HasFlag(Header(f), HEADER_IS_LINE) # HasFlag(Header(f), HEADER_IS_AREA)

\* C15: when GetScaleIndex returns -1 for the requested scale in ParseGeometry
\* (ParseTriangles) on a feature stored with outer geometry, the stage
\* completes without a failure, reads nothing of a container stream and
\* leaves the point (triangle) list empty; IsEmptyGeometry(scale) called
\* then on a line or an area returns true.
C15_MissingGeometryIsSoft ==
  /\ (rd_last.op = "ParseGeometry"
        /\ NoPointsOffset(rd_last.pre, rd_last.scale, rd_last.env)) =>
       /\ rd.failed = NoFailure /\ rd.m_bPointsParsed /\ rd.m_Points = <<>>
       /\ ParseGeometry(rd_last.pre, rd_last.scale, rd_last.env).sz = 0
  /\ (rd_last.op = "ParseTriangles"
        /\ NoTrianglesOffset(rd_last.pre, rd_last.scale, rd_last.env)) =>
       /\ rd.failed = NoFailure /\ rd.m_bTrianglesParsed /\ rd.m_Triangles = <<>>
       /\ ParseTriangles(rd_last.pre, rd_last.scale, rd_last.env).sz = 0
  /\ (rd_last.op = "IsEmptyGeometry" /\ OneGeometry(rd_last.pre)
        /\ ~rd_last.pre.m_bPointsParsed /\ ~rd_last.pre.m_bTrianglesParsed
        /\ \/ NoPointsOffset(rd_last.pre, rd_last.scale, rd_last.env)
           \/ NoTrianglesOffset(rd_last.pre, rd_last.scale, rd_last.env)) =>
       /\ rd.failed = NoFailure /\ rd_last.result
       /\ rd.m_Points = <<>> /\ rd.m_Triangles = <<>>

\* C15 witness: IsEmptyGeometry(0) was called on the fresh reader of a line
\* whose outer geometry is stored for the scale indices 1 and 3 only, and it
\* returned true.
C15_Witness ==
  /\ rd_last.op = "IsEmptyGeometry" /\ rd_last.scale = 0
  /\ rd_src.holder.m_ptsMask = 10 /\ rd_src.fb.m_bLinear
  /\ ~rd_last.pre.m_bHeader2Parsed
  /\ rd_last.result /\ rd.failed = NoFailure
  /\ rd.m_bPointsParsed /\ rd.m_Points = <<>>
  /\ rd.m_ptsOffsets[1] = kInvalidOffset /\ rd.m_ptsOffsets[2] = GeometryOffset(1)

(***************************************************************************)
(* The header byte of a valid builder (SpecBuilder)                        *)
(***************************************************************************)
\* What the header byte is made of: the number of types and the five flags.
HeaderFields(b) ==
  [types |-> Len(b.m_Types), name |-> b.m_Name # <<>>, layer |-> b.m_Layer # 0,
   point |-> b.m_bPoint, line |-> b.m_bLinear, area |-> b.m_bArea]

\* The same read back from a header byte: Header() & HEADER_TYPE_MASK and
\* the tests Header() & flag of the reader.
HeaderFieldsOf(h) ==
  [types |-> h % (HEADER_TYPE_MASK + 1), name |-> HasFlag(h, HEADER_HAS_NAME),
   layer |-> HasFlag(h, HEADER_HAS_LAYER), point |-> HasFlag(h, HEADER_HAS_POINT),
   line |-> HasFlag(h, HEADER_IS_LINE), area |-> HasFlag(h, HEADER_IS_AREA)]

\* C16: for every builder that passes CheckValid, GetHeader returns a byte
\* whose bits 0..2 are the number of types (1..MAX_TYPES), bit 3 is set iff
\* the name is non-empty, bit 4 iff the layer is not 0, bit 5 iff Point, bit 6
\* iff Line, bit 7 iff Area: the types count and the five flags are read back
\* unchanged from the byte (so different combinations give different bytes),
\* and the byte Serialize writes first is that byte.
C16_HeaderBijection ==
  CheckValid(fb) =>
    /\ GetHeader(fb) \in 0..255
    /\ HeaderFieldsOf(GetHeader(fb)) = HeaderFields(fb)
    /\ Len(fb.m_Types) \in 1..HEADER_TYPE_MASK
    /\ fb_phase = "serialized" =>
         HeaderFieldsOf(FieldBytes(fb_fields)[1]) = HeaderFields(fb)

\* C16 witness: a builder of seven types with a name, a layer, a centre and
\* an area was serialized; its header byte has every bit set but the Line
\* bit, or every bit.
C16_Witness ==
  /\ fb_phase = "serialized"
  /\ Len(fb.m_Types) = 7 /\ fb.m_Name # <<>> /\ fb.m_Layer # 0
  /\ fb.m_bPoint /\ fb.m_bArea
  /\ FieldBytes(fb_fields)[1] \in {191, 255}

(***************************************************************************)
(* The demotion of PreSerialize (SpecWriter2)                              *)
(***************************************************************************)
NoPoints(d) == d.m_ptsMask = 0 /\ d.m_innerPts = <<>>

NoTriangles(d) == d.m_trgMask = 0 /\ d.m_innerTrg = <<>>

\* C17: the call of FeatureBuilder2::PreSerialize(data) leaves the Line flag
\* set iff it was set and not (pts_mask == 0 and inner_pts empty), the Area
\* flag set iff it was set and not (trg_mask == 0 and inner_trg empty), and
\* every other member of the builder (Point flag, types, layer, name, centre,
\* geometry, holes, limit rect) and the holder unchanged.
C17_Demotion ==
  [][(w2_phase = "simplify" /\ w2_phase' # "simplify") =>
       /\ w2_fb'.m_bLinear = (w2_fb.m_bLinear /\ ~NoPoints(w2_data))
       /\ w2_fb'.m_bArea = (w2_fb.m_bArea /\ ~NoTriangles(w2_data))
       /\ w2_fb' = [w2_fb EXCEPT !.m_bLinear = w2_fb'.m_bLinear,
                                 !.m_bArea = w2_fb'.m_bArea]
       /\ w2_data' = w2_data]_vars

\* C17 witness: PreSerialize returned true for a builder the simplifier
\* handled as a line and as an area; neither points nor outer geometry were
\* stored for the line and it is no line any more, while the area with its
\* inline strip is still an area and the geometry of the builder is there.
C17_Witness ==
  /\ w2_phase = "ready"
  /\ w2_ptsScale < 0 /\ w2_trgScale < 0
  /\ NoPoints(w2_data) /\ ~w2_fb.m_bLinear
  /\ ~NoTriangles(w2_data) /\ w2_data.m_trgMask = 0 /\ w2_fb.m_bArea
  /\ Len(w2_fb.m_Geometry) >= 3

(***************************************************************************)
(* ParseAll called again (SpecQueries)                                     *)
(***************************************************************************)
\* Both geometry stages have run on reader f since the last Deserialize.
GeometryParsed(f) == f.m_bPointsParsed /\ f.m_bTrianglesParsed

\* C19: a ParseAll(s) that completes leaves both geometry stages (and the
\* stages before them) run, and a ParseAll(s') called on a reader on which
\* both have run, whatever the scale s', leaves the reader as it was: types,
\* layer, name, centre, points, triangles, limit rect and the parsed flags;
\* it decodes no geometry a second time.
C19_ParseAllIdempotent ==
  rd_last.op = "ParseAll" =>
    /\ rd.failed = NoFailure =>
         /\ GeometryParsed(rd)
         /\ rd.m_bTypesParsed /\ rd.m_bCommonParsed /\ rd.m_bHeader2Parsed
    /\ GeometryParsed(rd_last.pre) => rd = rd_last.pre

\* C19 witness: ParseAll was called a second time since the Deserialize, at
\* scale 0, on a reader that holds the three vertices an earlier call
\* decoded from the container for another scale; it holds them still.
C19_Witness ==
  /\ rd_last.op = "ParseAll" /\ rd_last.scale = 0 /\ rd_calls = 2
  /\ GeometryParsed(rd_last.pre)
  /\ rd_src.holder.m_ptsMask = 10
  /\ rd.m_Points = ScaleGeometry(1) /\ rd.failed = NoFailure

(***************************************************************************)
(* The parsed flags (SpecQueries)                                          *)
(***************************************************************************)
\* C20: in every state the calls of Deserialize, of the parse stages, of
\* ParseAll and of IsEmptyGeometry reach, m_bCommonParsed implies
\* m_bTypesParsed, m_bHeader2Parsed implies m_bCommonParsed, and
\* m_bPointsParsed or m_bTrianglesParsed implies m_bHeader2Parsed; the
\* constructor and every Deserialize leave the five flags false and the
\* points, the triangles, the simplification mask, the layer, the name and
\* the limit rect cleared.
C20_StageFlags ==
  /\ rd.m_bCommonParsed => rd.m_bTypesParsed
  /\ rd.m_bHeader2Parsed => rd.m_bCommonParsed
  /\ (rd.m_bPointsParsed \/ rd.m_bTrianglesParsed) => rd.m_bHeader2Parsed
  /\ rd_last.op \in {"none", "Deserialize"} =>
       /\ ~rd.m_bTypesParsed /\ ~rd.m_bCommonParsed /\ ~rd.m_bHeader2Parsed
       /\ ~rd.m_bPointsParsed /\ ~rd.m_bTrianglesParsed
       /\ rd.m_Points = <<>> /\ rd.m_Triangles = <<>>
       /\ rd.m_ptsSimpMask = Word32Zero
       /\ rd.m_Layer = 0 /\ rd.m_Name = <<>> /\ rd.m_LimitRect = EmptyRect

\* C20 witness: Deserialize was called on a reader that had parsed a layer,
\* a name, a simplification mask and the points of a line, with all stages
\* run; the flags are false and the caches empty.
C20_Witness ==
  /\ rd_last.op = "Deserialize"
  /\ rd_last.pre.m_bTypesParsed /\ rd_last.pre.m_bCommonParsed
  /\ rd_last.pre.m_bHeader2Parsed /\ GeometryParsed(rd_last.pre)
  /\ rd_last.pre.m_Layer = 3 /\ rd_last.pre.m_Name = <<66, 67>>
  /\ rd_last.pre.m_Points # <<>> /\ rd_last.pre.m_ptsSimpMask # Word32Zero
  /\ rd_last.pre.m_LimitRect # EmptyRect
  /\ ~rd.m_bTypesParsed /\ ~rd.m_bPointsParsed /\ rd.m_Name = <<>>

(***************************************************************************)
(* The getter specification: the query operations of a FeatureType         *)
(* (ParseAll, IsEmptyGeometry, GetLimitRect, DebugString, GetGeometrySize, *)
(* GetTrianglesSize) called in any order between two Deserialize calls.    *)
(***************************************************************************)
GetterSources ==
  {Source(LineBuilder, Holder(InnerPath(4), 9, 0, <<>>, 0)),
   Source(LineBuilder, Holder(<<>>, 0, 10, <<>>, 0)),
   Source(AreaBuilder, Holder(<<>>, 0, 0, InnerPath(3), 0)),
   Source(AreaBuilder, Holder(<<>>, 0, 0, <<>>, 5)),
   Source(SetCenter(LineBuilder, <<2, -2>>), Holder(<<>>, 0, 0, <<>>, 0))}

InitGetters ==
  /\ rd_src \in Constructed(GetterSources)
  /\ rd = FeatureDeserialize(FreshReader, Refilled(rd_src))
  /\ rd_clean = TRUE
  /\ rd_kept = NothingKept
  /\ rd_calls = 0
  /\ rd_last = NoCall

GettersStart ==
  /\ debug \in BOOLEAN
  /\ InitGetters /\ InitBits /\ IdleScale /\ InitBuilder /\ IdleWriter

\* m2::RectD(0, 0, 0, 0)
ZeroRect == [minX |-> 0, minY |-> 0, maxX |-> 0, maxY |-> 0]

\* FeatureType::GetLimitRect(scale): the reader after it; the value returned
\* is its m_LimitRect.
GetLimitRect(f, scale, env) ==
  Local(ParseAll(f, scale, env), LAMBDA g :
    IF g.failed # NoFailure THEN g
    ELSE IF g.m_Triangles = <<>> /\ g.m_Points = <<>>
            /\ ~HasFlag(Header(g), HEADER_HAS_POINT)
      THEN [g EXCEPT !.m_LimitRect = ZeroRect]
    ELSE g)

\* FeatureType::DebugString(scale): the reader after it.  ParseAll(scale),
\* then FeatureBase::DebugString with its ASSERT(m_bCommonParsed); the string
\* is built of members the call does not change.
DebugString(f, scale, env) ==
  Local(ParseAll(f, scale, env), LAMBDA g :
    IF g.failed # NoFailure THEN g
    ELSE AssertThen(g, g.m_bCommonParsed, "ASSERT(m_bCommonParsed)", g))

\* FeatureType::GetGeometrySize(scale): the reader after it and the
\* geom_stat_t returned.
GetGeometrySize(f, scale, env) ==
  Local(ParseGeometry(f, scale, env), LAMBDA r :
    [f |-> r.f,
     m_size  |-> IF r.sz = 0 /\ r.f.m_Points # <<>>
                   THEN r.f.m_InnerStats.m_Points ELSE r.sz,
     m_count |-> Len(r.f.m_Points)])

\* FeatureType::GetTrianglesSize(scale)
GetTrianglesSize(f, scale, env) ==
  Local(ParseTriangles(f, scale, env), LAMBDA r :
    [f |-> r.f,
     m_size  |-> IF r.sz = 0 /\ r.f.m_Triangles # <<>>
                   THEN r.f.m_InnerStats.m_Strips ELSE r.sz,
     m_count |-> Len(r.f.m_Triangles)])

\* A query that leaves the reader g.
Queried(op, scale, env, g) ==
  /\ MayCall
  /\ Returned(g, FALSE)
  /\ Last(op, scale, env)
  /\ UNCHANGED rd_kept

NextGetters ==
  \/ CallDeserialize2 /\ Last("Deserialize", 0, NoEnvironment) /\ ReaderOnly
  \/ \E scale \in Scales, env \in Environments(rd) :
       Queried("ParseAll", scale, env, ParseAll(rd, scale, env)) /\ ReaderOnly
  \/ \E scale \in Scales, env \in Environments(rd), kind \in ReturnedKinds(rd) :
       Queried("IsEmptyGeometry", scale, env,
               IsEmptyGeometry(rd, scale, env, kind).f) /\ ReaderOnly
  \/ \E scale \in Scales, env \in Environments(rd) :
       Queried("GetLimitRect", scale, env, GetLimitRect(rd, scale, env)) /\ ReaderOnly
  \/ \E scale \in Scales, env \in Environments(rd) :
       Queried("DebugString", scale, env, DebugString(rd, scale, env)) /\ ReaderOnly
  \/ \E scale \in Scales, env \in Environments(rd) :
       Queried("GetGeometrySize", scale, env,
               GetGeometrySize(rd, scale, env).f) /\ ReaderOnly
  \/ \E scale \in Scales, env \in Environments(rd) :
       Queried("GetTrianglesSize", scale, env,
               GetTrianglesSize(rd, scale, env).f) /\ ReaderOnly

SpecGetters == GettersStart /\ [][NextGetters]_vars

\* C21 (as claimed): whatever query operations are called after a
\* Deserialize, in any order and at any scales, no "this stage has not run
\* before" assertion of ParseTypes, ParseCommon, ParseHeader2, ParseGeometry
\* or ParseTriangles fails.
C21_QueriesNeverAssert ==
  rd.failed \notin {OwnAssert(op) : op \in Stages}

(***************************************************************************)
(* The header-2 specification: a reader on each feature FeatureBuilder2    *)
(* writes for every value of its 4-bit fields, ParseCommon and             *)
(* ParseHeader2 called on it.                                              *)
(***************************************************************************)
\* A simplification mask with a tag for every vertex between the first and
\* the last of n points: all tags 3, or the tags 1, 2, 1, 2, ... upwards.
RECURSIVE AlternatingTags(_)
AlternatingTags(k) ==
  IF k <= 0 THEN 0
  ELSE (1 + ((k - 1) % 2)) * Pow2(2 * (k - 1)) + AlternatingTags(k - 1)

SimpMasksOf(n) ==
  IF n <= 2 THEN {0} ELSE {Pow2(2 * (n - 2)) - 1, AlternatingTags(n - 2)}

\* What the simplifier can leave for one kind of geometry: count inline
\* points (no outer mask), or no inline point and a 4-bit outer mask that is
\* not 0.
InlineCounts == 1..15

OuterMasks == 1..15

\* A point feature: neither a line nor an area.
PointBuilder == SetCenter(AddType(FreshBuilder, 200), <<2, -2>>)

LineHolders ==
  UNION {{Holder(InnerPath(n), m, 0, <<>>, 0) : m \in SimpMasksOf(n)} : n \in InlineCounts}
    \cup {Holder(<<>>, 0, m, <<>>, 0) : m \in OuterMasks}

\* The holder d with the triangles of an area added: a strip of count + 2
\* points for the encoded count, or an outer mask.
WithTriangles(d) ==
  {[d EXCEPT !.m_innerTrg = InnerPath(n + 2)] : n \in InlineCounts}
    \cup {[d EXCEPT !.m_trgMask = m,
                    !.m_trgOffset = PushedOffsets(m, TrianglesOffset, ScalesCount - 1)]
            : m \in OuterMasks}

Header2Sources ==
  {Source(PointBuilder, EmptyHolder)}
    \cup {Source(LineBuilder, d) : d \in LineHolders}
    \cup {Source(AreaBuilder, d) : d \in WithTriangles(EmptyHolder)}
    \cup {Source(SetLinear(AreaBuilder), d) :
            d \in UNION {WithTriangles(l) : l \in LineHolders}}

\* The holder d with a strip too short for a triangle: one point, whose
\* count less 2 wraps in the uint8_t, or two points, whose count less 2 is 0,
\* with an outer mask.
ShortStrips(d) ==
  {[d EXCEPT !.m_innerTrg = InnerPath(1)]}
    \cup {[d EXCEPT !.m_innerTrg = InnerPath(2), !.m_trgMask = m,
                    !.m_trgOffset = PushedOffsets(m, TrianglesOffset, ScalesCount - 1)]
            : m \in OuterMasks}

\* The features with such a strip.  Only a release build writes them: a
\* debug build stops in Serialize at ASSERT_GREATER(trgCount, 2).
ShortStripSources ==
  {Source(AreaBuilder, d) : d \in ShortStrips(EmptyHolder)}
    \cup {Source(SetLinear(AreaBuilder), d) :
            d \in UNION {ShortStrips(l) : l \in LineHolders}}

InitHeader2 ==
  /\ rd_src \in Constructed(Header2Sources
                              \cup (IF debug THEN {} ELSE ShortStripSources))
  /\ rd = FeatureDeserialize(FreshReader, Refilled(rd_src))
  /\ rd_clean = TRUE
  /\ rd_kept = NothingKept
  /\ rd_calls = 0
  /\ rd_last = NoCall

Header2Start ==
  /\ debug \in BOOLEAN
  /\ InitHeader2 /\ InitBits /\ IdleScale /\ InitBuilder /\ IdleWriter

NextHeader2 ==
  \/ CallDeserialize2 /\ Last("Deserialize", 0, NoEnvironment) /\ ReaderOnly
  \/ CallParseCommon /\ Last("ParseCommon", 0, NoEnvironment) /\ ReaderOnly
  \/ CallParseHeader2 /\ Last("ParseHeader2", 0, NoEnvironment) /\ ReaderOnly

SpecHeader2 == Header2Start /\ [][NextHeader2]_vars

\* The 4 bits that bitSink.Write(value, 4) has just put into the bytes: s is
\* the sink after the call and bytes what the sink emits in the end.  The
\* field lies in the byte the sink was filling, 4 bits below its position.
WrittenField(s, bytes) ==
  (bytes[Len(s.sink) + 1] \div Pow2(s.pos - 4)) % 16

\* The bit fields FeatureBuilder2::Serialize wrote for the source
\* (feature.cpp:391-415): ptsCount and trgCount as it computes them in a
\* uint8_t (trgCount less 2 when it is not 0, wrapping below 0), a mask
\* where the count it computed is 0, each as the 4 bits the sink holds for
\* it; and the number of bytes the BitSink emitted.
WrittenHeader2(src) ==
  Local(U8(Len(src.holder.m_innerPts)), LAMBDA ptsCount :
  Local(U8(Len(src.holder.m_innerTrg)), LAMBDA trg0 :
  Local(IF trg0 > 0 THEN U8(trg0 - 2) ELSE trg0, LAMBDA trgCount :
  Local([pos |-> 0, current |-> 0, sink |-> <<>>, ok |-> TRUE], LAMBDA s0 :
  Local(IF src.fb.m_bLinear THEN BitWrite(s0, ptsCount, 4) ELSE s0, LAMBDA s1 :
  Local(IF src.fb.m_bLinear /\ ptsCount = 0
          THEN BitWrite(s1, src.holder.m_ptsMask, 4) ELSE s1, LAMBDA s2 :
  Local(IF src.fb.m_bArea THEN BitWrite(s2, trgCount, 4) ELSE s2, LAMBDA s3 :
  Local(IF src.fb.m_bArea /\ trgCount = 0
          THEN BitWrite(s3, src.holder.m_trgMask, 4) ELSE s3, LAMBDA s4 :
  Local(BitSinkFinish(s4.pos, s4.current, s4.sink).sink, LAMBDA bytes :
    [ptsCount |-> IF src.fb.m_bLinear THEN WrittenField(s1, bytes) ELSE 0,
     ptsMask  |-> IF src.fb.m_bLinear /\ ptsCount = 0
                    THEN WrittenField(s2, bytes) ELSE 0,
     trgCount |-> IF src.fb.m_bArea THEN WrittenField(s3, bytes) ELSE 0,
     trgMask  |-> IF src.fb.m_bArea /\ trgCount = 0
                    THEN WrittenField(s4, bytes) ELSE 0,
     bytes    |-> IF FieldsOf(src.fields, "header2") = <<>> THEN 0
                  ELSE Len(FieldsOf(src.fields, "header2")[1].bytes)])))))))))

\* The reader as ParseHeader2 has it when it reads the bit fields: the one
\* the call was made on, with the common part parsed.
AtHeader2(f) == IF ~f.m_bCommonParsed THEN ParseCommon(f) ELSE f

\* C22: for every combination of the Line and Area flags, every pts_count
\* and trg_count in 0..15 and every 4-bit mask that is not 0, the values
\* ParseHeader2 reads with BitSource (pts_count, pts_mask when pts_count is
\* 0, trg_count, trg_mask when trg_count is 0) are the values
\* FeatureBuilder2::Serialize wrote with BitSink, and the position the reader
\* goes on from after rounding is the number of bytes written for the bit
\* fields (0, 1 or 2) behind m_Header2Offset.
C22_Header2RoundTrip ==
  rd_last.op = "ParseHeader2" =>
    \A g \in {AtHeader2(rd_last.pre)} :
      g.failed = NoFailure =>
        \A b \in {Header2Fields(g)}, w \in {WrittenHeader2(rd_src)} :
          /\ ~b.past
          /\ b.ptsCount = w.ptsCount /\ b.ptsMask = w.ptsMask
          /\ b.trgCount = w.trgCount /\ b.trgMask = w.trgMask
          /\ b.next - (g.m_Header2Offset + 1) = w.bytes
          /\ w.bytes \in 0..2

\* C22 witness: ParseHeader2 completed on a line of 7 inline points that is
\* also an area with the outer mask 0b1001: three fields in two bytes, and
\* the offsets of the scale indices 0 and 3 read from behind them.
C22_Witness ==
  /\ rd_last.op = "ParseHeader2" /\ rd.m_bHeader2Parsed /\ rd.failed = NoFailure
  /\ Len(rd_src.holder.m_innerPts) = 7 /\ rd_src.holder.m_trgMask = 9
  /\ Len(rd.m_Points) = 7
  /\ rd.m_trgOffsets[1] = TrianglesOffset(0) /\ rd.m_trgOffsets[4] = TrianglesOffset(3)
  /\ WrittenHeader2(rd_src).bytes = 2

(***************************************************************************)
(* The simplification mask of an inline line (SpecHeader2)                 *)
(***************************************************************************)
\* The uint32_t the four bytes of word stand for, lowest byte first.
WordNumber(word) ==
  word[1] + 256 * word[2] + 65536 * word[3] + 16777216 * word[4]

\* The bytes FeatureBuilder2::Serialize wrote for the simplification mask.
WrittenMaskBytes(src) ==
  IF FieldsOf(src.fields, "simpMask") = <<>> THEN <<>>
  ELSE FieldsOf(src.fields, "simpMask")[1].bytes

\* ceil((n - 2) / 4) for n > 2, and 0 otherwise
MaskByteCount(n) == IF n > 2 THEN (n - 2 + 3) \div 4 ELSE 0

\* C23 (as claimed): for every inline line with pts_count in 1..15 (and no
\* strip too short for a triangle), read by a reader that holds the bytes
\* written for it, the writer
\* emits ceil((pts_count - 2) / 4) mask bytes when pts_count > 2 and none
\* otherwise, ParseHeader2 fails no assertion on its way (pts_count > 1, mask
\* byte count < 4), reads that many bytes and holds the low
\* 2 * (pts_count - 2) bits of the mask the writer was given.
C23_SimpMaskAgrees ==
  (/\ rd_last.op = "ParseHeader2" /\ ~rd_last.pre.m_bHeader2Parsed
   /\ rd_last.pre.m_Data = rd_src.record
   /\ Len(rd_src.holder.m_innerTrg) \notin {1, 2}
   /\ rd_src.fb.m_bLinear /\ rd_src.holder.m_innerPts # <<>>) =>
    \A n \in {Len(rd_src.holder.m_innerPts)} :
      /\ Len(WrittenMaskBytes(rd_src)) = MaskByteCount(n)
      /\ rd.failed = NoFailure
      /\ rd.m_bHeader2Parsed
      /\ WordNumber(rd.m_ptsSimpMask) % Pow2(2 * (n - 2) * (IF n > 2 THEN 1 ELSE 0))
           = rd_src.holder.m_ptsSimpMask % Pow2(2 * (n - 2) * (IF n > 2 THEN 1 ELSE 0))
      /\ Len(rd.m_Points) = n

(***************************************************************************)
(* The strip specification: FeatureBuilder2 serializes an area whose       *)
(* holder has an inline strip of every length, and a FeatureType reads     *)
(* header 2 of the bytes written.                                          *)
(***************************************************************************)
\* the lengths of data.m_innerTrg
StripLengths == 0..17

\* The holder of an area: a strip of n points, or for no point outer
\* triangles of the scale indices 0 and 2; with or without an inline line.
StripHolders ==
  {Holder(pts, IF pts = <<>> THEN 0 ELSE 9, 0, InnerPath(n), IF n = 0 THEN 5 ELSE 0) :
     pts \in {<<>>, InnerPath(4)}, n \in StripLengths}

InitStrips ==
  /\ w2_data \in StripHolders
  /\ w2_fb = IF w2_data.m_innerPts = <<>> THEN AreaBuilder ELSE SetLinear(AreaBuilder)
  /\ w2_base = ReaderBase
  /\ w2_ptsScale = -1
  /\ w2_trgScale = -1
  /\ w2_supplied = [pts |-> NothingSupplied, trg |-> NothingSupplied]
  /\ w2_phase = "simplify"
  /\ w2_fields = <<>>
  /\ w2_failed = NoFailure

StripsStart ==
  /\ debug \in BOOLEAN
  /\ InitStrips /\ InitBits /\ IdleScale /\ InitBuilder /\ IdleReader

\* FeatureType f(src) on the bytes in data.m_buffer, then f.ParseHeader2()
CallReadBack ==
  /\ w2_phase = "serialized"
  /\ rd_calls = 0
  /\ rd_src' = SwappedSource(FreshReader,
                             [RawSource(FieldBytes(w2_fields)) EXCEPT
                                !.fb = w2_fb, !.holder = w2_data,
                                !.fields = w2_fields])
  /\ rd' = ParseHeader2(FeatureDeserialize(FreshReader, RawSource(FieldBytes(w2_fields))))
  /\ rd_calls' = 1
  /\ UNCHANGED <<rd_clean, rd_kept, rd_last>>

NextStrips ==
  \/ CallPreSerialize /\ WriterOnly
  \/ CallSerialize2 /\ WriterOnly
  \/ CallReadBack /\ ReaderOnly

SpecStrips == StripsStart /\ [][NextStrips]_vars

\* The 4-bit trg_count field of the bytes written, as the bit source gives
\* it behind the fields of the line.
WrittenTrgCount ==
  Header2Fields(AtHeader2(FeatureDeserialize(FreshReader,
                                             RawSource(FieldBytes(w2_fields))))).trgCount

\* C24 (as claimed): for every length n in 0..17 of inner_trg,
\* FeatureBuilder2::Serialize fails no assertion and writes the 4-bit field
\* trg_count = max(0, n - 2) (no 8-bit wrap-around; 0, 1 and 2 points encode
\* 0 and take the mask and offsets form); the reader adds 2 back and decodes
\* n points when trg_count > 0.
C24_TriangleCount ==
  \A n \in {Len(w2_data.m_innerTrg)} :
    /\ w2_phase # "failed"
    /\ w2_phase = "serialized" =>
         /\ WrittenTrgCount = (IF n > 2 THEN n - 2 ELSE 0)
         /\ (n <= 2) = (FieldsOf(w2_fields, "trgOffsets") # <<>>)
         /\ (n > 2) = (FieldsOf(w2_fields, "innerTrg") # <<>>)
    /\ (rd_calls = 1 /\ n > 2 /\ rd.failed = NoFailure) =>
         /\ Len(rd.m_Triangles) = 3 * (n - 2)
         /\ rd.m_Triangles[Len(rd.m_Triangles)] = InnerPoint(n - 1)

(***************************************************************************)
(* The limit rect of the builder (SpecBuilder)                             *)
(***************************************************************************)
\* The points builder b contains: its centre when the Point flag is set,
\* the points of its geometry and the points of the holes it stores.
ContainedPoints(b) ==
  (IF b.m_bPoint THEN {b.m_Center} ELSE {})
    \cup Range(b.m_Geometry)
    \cup UNION {Range(b.m_Holes[i]) : i \in 1..Len(b.m_Holes)}

\* The axis-aligned bounding rectangle of a set of points; of no point, the
\* empty rect.
BoundingRect(S) ==
  IF S = {} THEN EmptyRect
  ELSE [minX |-> SetMin({p[1] : p \in S}), minY |-> SetMin({p[2] : p \in S}),
        maxX |-> SetMax({p[1] : p \in S}), maxY |-> SetMax({p[2] : p \in S})]

\* C25 (as claimed): after any sequence of SetCenter, AddPoint and
\* SetAreaAddHoles on a fresh builder, repeated SetCenter calls included, the
\* limit rect of the builder is the bounding rectangle of the points it
\* contains.
C25_LimitRectIsBoundingRect ==
  fb.m_LimitRect = BoundingRect(ContainedPoints(fb))

====
